---- MODULE Spec2Model ----
(***************************************************************************)
(* mev-boost BoostService (server/service.go): the relay fan-out handlers  *)
(* handleStatus, handleRegisterValidator, handleGetHeader and              *)
(* handleGetPayload, and the bid cache m.bids they share.                  *)
(*                                                                         *)
(* Every handler spawns one goroutine per configured relay.  A goroutine   *)
(* is modelled by its position (pc) and its locals; a step of the model is *)
(* the code between two synchronisation points (an HTTP call returning, a  *)
(* mutex acquired, a channel operation, wg.Wait returning).                *)
(***************************************************************************)
EXTENDS Integers, Sequences, FiniteSets, TLC

(***************************************************************************)
(* Bounds of the model.                                                    *)
(***************************************************************************)
NumRelays == 2      \* len(m.relays)
MaxValue == 2       \* bid values range over 0..MaxValue
MaxRequests == 2    \* requests accepted in a behaviour
MaxTime == 5        \* the clock runs over 1..MaxTime, in minutes

Relays == 1..NumRelays

(***************************************************************************)
(* Relay descriptors (RelayEntry): public key and rendered string.         *)
(***************************************************************************)
RelayPublicKey(r) == <<"pkA", "pkB", "pkC", "pkD">>[r]
RelayString(r) ==
    <<"https://pkA@relayA", "https://pkB@relayB", "https://pkC@relayC", "https://pkD@relayD">>[r]
\* a key that belongs to no configured relay
ForeignKey == "pkX"
PublicKeys == {RelayPublicKey(r) : r \in Relays} \cup {ForeignKey}

(***************************************************************************)
(* types.Hash values and their String() rendering (0x + 64 lower-case hex  *)
(* digits).  The hash values are tokens; String() is the table below.      *)
(***************************************************************************)
nilHash == "hash0"
BlockHashes == {"hashA", "hashB"}
ParentHashes == {"parentA", "parentB"}
TxRoots == {"rootEmptyList", "rootT"}

HashString(hash) ==
    CASE hash = "hash0" -> "0x0000000000000000000000000000000000000000000000000000000000000000"
      [] hash = "hashA" -> "0xa1a1a1a1a1a1a1a1a1a1a1a1a1a1a1a1a1a1a1a1a1a1a1a1a1a1a1a1a1a1a1a1"
      [] hash = "hashB" -> "0xb2b2b2b2b2b2b2b2b2b2b2b2b2b2b2b2b2b2b2b2b2b2b2b2b2b2b2b2b2b2b2b2"
      [] hash = "parentA" -> "0xc3c3c3c3c3c3c3c3c3c3c3c3c3c3c3c3c3c3c3c3c3c3c3c3c3c3c3c3c3c3c3c3"
      [] hash = "parentB" -> "0xd4d4d4d4d4d4d4d4d4d4d4d4d4d4d4d4d4d4d4d4d4d4d4d4d4d4d4d4d4d4d4d4"
      [] hash = "rootEmptyList" -> "0x7ffe241ea60187fdb0187bfa22de35d1f9bed7ab061d9401fd47e34a54fbede1"
      [] hash = "rootT" -> "0xf6f6f6f6f6f6f6f6f6f6f6f6f6f6f6f6f6f6f6f6f6f6f6f6f6f6f6f6f6f6f6f6"

\* the sentinel of line 356
EmptyListTxRoot == "0x7ffe241ea60187fdb0187bfa22de35d1f9bed7ab061d9401fd47e34a54fbede1"

\* U256Str.String(): the decimal rendering of a bid value
ValueString(value) == ToString(value)

(***************************************************************************)
(* strconv.ParseUint(s, 10, 64).  A string is a sequence of one-character  *)
(* strings.  The result is [err, val]; val is the parsed number as its     *)
(* canonical decimal numeral (no leading zeros), because 2^64 - 1 is       *)
(* beyond the integers of the model checker.                               *)
(***************************************************************************)
DecimalDigits == {"0", "1", "2", "3", "4", "5", "6", "7", "8", "9"}
MaxUint64Numeral ==
    <<"1","8","4","4","6","7","4","4","0","7","3","7","0","9","5","5","1","6","1","5">>

DigitValue(c) ==
    CASE c = "0" -> 0 [] c = "1" -> 1 [] c = "2" -> 2 [] c = "3" -> 3 [] c = "4" -> 4
      [] c = "5" -> 5 [] c = "6" -> 6 [] c = "7" -> 7 [] c = "8" -> 8 [] c = "9" -> 9

RECURSIVE StripLeadingZeros(_)
StripLeadingZeros(s) ==
    IF Len(s) > 1 /\ Head(s) = "0" THEN StripLeadingZeros(Tail(s)) ELSE s

\* a < b for numerals of the same length
RECURSIVE NumeralLess(_, _)
NumeralLess(a, b) ==
    IF a = <<>> THEN FALSE
    ELSE IF DigitValue(Head(a)) # DigitValue(Head(b))
         THEN DigitValue(Head(a)) < DigitValue(Head(b))
         ELSE NumeralLess(Tail(a), Tail(b))

\* the value of canonical numeral n exceeds 2^64 - 1
ExceedsUint64(n) ==
    \/ Len(n) > Len(MaxUint64Numeral)
    \/ Len(n) = Len(MaxUint64Numeral) /\ NumeralLess(MaxUint64Numeral, n)

ParseUint(s) ==
    IF s = <<>> THEN [err |-> "syntax", val |-> <<>>]
    ELSE IF \E i \in 1..Len(s) : s[i] \notin DecimalDigits
         THEN [err |-> "syntax", val |-> <<>>]
    ELSE IF ExceedsUint64(StripLeadingZeros(s))
         THEN [err |-> "range", val |-> MaxUint64Numeral]
    ELSE [err |-> "nil", val |-> StripLeadingZeros(s)]

(***************************************************************************)
(* Request inputs of getHeader (mux.Vars): slot, parent_hash and pubkey    *)
(* strings.                                                                *)
(***************************************************************************)
SlotStrings ==
    { <<"4","2">>, MaxUint64Numeral,
      <<>>, <<"4","x">>, <<"-","1">>, <<"+","7">>,
      <<"1","8","4","4","6","7","4","4","0","7","3","7","0","9","5","5","1","6","1","6">>,
      <<"1","0","0","0","0","0","0","0","0","0","0","0","0","0","0","0","0","0","0","0","0">> }

ParentHashStrings ==
    { "0xc3c3c3c3c3c3c3c3c3c3c3c3c3c3c3c3c3c3c3c3c3c3c3c3c3c3c3c3c3c3c3c3",
      "0xC3C3C3C3C3C3C3C3C3C3C3C3C3C3C3C3C3C3C3C3C3C3C3C3C3C3C3C3C3C3C3C3",
      "0xc3c3c3c3c3c3c3c3c3c3c3c3c3c3c3c3c3c3c3c3c3c3c3c3c3c3c3c3c3c3c3c",
      "0xc3c3c3c3c3c3c3c3c3c3c3c3c3c3c3c3c3c3c3c3c3c3c3c3c3c3c3c3c3c3c3c3c",
      "" }

PubkeyStrings ==
    { "0xe5e5e5e5e5e5e5e5e5e5e5e5e5e5e5e5e5e5e5e5e5e5e5e5e5e5e5e5e5e5e5e5e5e5e5e5e5e5e5e5e5e5e5e5e5e5e5e5",
      "0xe5e5e5e5e5e5e5e5e5e5e5e5e5e5e5e5e5e5e5e5e5e5e5e5e5e5e5e5e5e5e5e5e5e5e5e5e5e5e5e5e5e5e5e5e5e5e5e",
      "0xe5e5e5e5e5e5e5e5e5e5e5e5e5e5e5e5e5e5e5e5e5e5e5e5e5e5e5e5e5e5e5e5e5e5e5e5e5e5e5e5e5e5e5e5e5e5e5e5e" }

PubkeyHexLen == 98
ParentHashHexLen == 66

\* The checks without the one of the pubkey.
GetHeaderArgsErrorPubkeyUnchecked(slot, parentHashHex, pubkey) ==
    IF ParseUint(slot).err # "nil" THEN "invalid slot"
    ELSE IF Len(parentHashHex) # ParentHashHexLen THEN "invalid hash"
    ELSE ""

\* Lines 273-287: the error the request is rejected with, "" when it is accepted.
GetHeaderArgsError(slot, parentHashHex, pubkey) ==
    IF ParseUint(slot).err # "nil" THEN "invalid slot"
    ELSE IF Len(pubkey) # PubkeyHexLen THEN "invalid pubkey"
    ELSE IF Len(parentHashHex) # ParentHashHexLen THEN "invalid hash"
    ELSE ""

(***************************************************************************)
(* The relays' answers to getHeader: what SendHTTPRequest hands back       *)
(* (error, status code, decoded types.GetHeaderResponse).                  *)
(***************************************************************************)
builderSigningDomain == "domainBuilder"
SigningDomains == {"domainBuilder", "domainOther"}

NoMessage ==
    [pubkey |-> "", value |-> 0, blockHash |-> nilHash, parentHash |-> nilHash,
     transactionsRoot |-> nilHash]
NoSignature == [malformed |-> TRUE, signer |-> "", domain |-> "", msg |-> NoMessage]
\* the zero types.GetHeaderResponse: Data == nil
NoHeaderResponse == [data |-> "nil", message |-> NoMessage, signature |-> NoSignature]

BidMessages ==
    [pubkey : PublicKeys, value : 0..MaxValue, blockHash : BlockHashes \cup {nilHash},
     parentHash : ParentHashes, transactionsRoot : TxRoots]

\* a message the signer did not sign: the same bid with another value
Tampered(m) == [m EXCEPT !.value = m.value + 1]

SignaturesOver(m) ==
    {NoSignature} \cup
    {[malformed |-> FALSE, signer |-> k, domain |-> d, msg |-> x] :
        k \in PublicKeys, d \in SigningDomains, x \in {m, Tampered(m)}}

HeaderResponses ==
    {[data |-> d, message |-> NoMessage, signature |-> NoSignature] :
        d \in {"nil", "message_nil", "header_nil"}}
    \cup UNION {{[data |-> "ok", message |-> m, signature |-> s] : s \in SignaturesOver(m)} :
                m \in BidMessages}

HeaderAnswers ==
    {[err |-> TRUE, code |-> 0, payload |-> NoHeaderResponse],
     [err |-> FALSE, code |-> 204, payload |-> NoHeaderResponse]}
    \cup {[err |-> FALSE, code |-> 200, payload |-> p] : p \in HeaderResponses}

\* types.VerifySignature(msg, domain, pk, sig): (ok, err)
VerifySignature(msg, domain, pk, sig) ==
    IF sig.malformed THEN [ok |-> FALSE, err |-> TRUE]
    ELSE [ok |-> sig.signer = pk /\ sig.domain = domain /\ sig.msg = msg, err |-> FALSE]

\* U256Str.Cmp
Cmp(a, b) == IF a < b THEN -1 ELSE IF a = b THEN 0 ELSE 1

\* The checks with a signature that does not verify let through (only an error
\* of the verification drops the bid).
GetHeaderDropReasonSigErrOnly(relay, answer, parentHashHex) ==
    LET p == answer.payload
        m == p.message
        v == VerifySignature(m, builderSigningDomain, RelayPublicKey(relay), p.signature)
    IN  IF answer.err THEN "error making request to relay"
        ELSE IF answer.code = 204 THEN "no-content response"
        ELSE IF p.data # "ok" \/ m.blockHash = nilHash THEN "invalid payload"
        ELSE IF RelayPublicKey(relay) # m.pubkey THEN "bid pubkey mismatch"
        ELSE IF v.err THEN "error verifying relay signature"
        ELSE IF HashString(m.parentHash) # parentHashHex
             THEN "proposer and relay parent hashes are not the same"
        ELSE IF ValueString(m.value) = "0" \/ HashString(m.transactionsRoot) = EmptyListTxRoot
             THEN "ignoring bid with 0 value"
        ELSE ""

\* The checks without the one of the value and the transactions root.
GetHeaderDropReasonNoZeroCheck(relay, answer, parentHashHex) ==
    LET p == answer.payload
        m == p.message
        v == VerifySignature(m, builderSigningDomain, RelayPublicKey(relay), p.signature)
    IN  IF answer.err THEN "error making request to relay"
        ELSE IF answer.code = 204 THEN "no-content response"
        ELSE IF p.data # "ok" \/ m.blockHash = nilHash THEN "invalid payload"
        ELSE IF RelayPublicKey(relay) # m.pubkey THEN "bid pubkey mismatch"
        ELSE IF v.err THEN "error verifying relay signature"
        ELSE IF ~v.ok THEN "failed to verify relay signature"
        ELSE IF HashString(m.parentHash) # parentHashHex
             THEN "proposer and relay parent hashes are not the same"
        ELSE ""

(***************************************************************************)
(* Lines 306-360, the checks a relay goroutine of handleGetHeader makes    *)
(* before it takes mu: the reason the answer is dropped, "" when it is     *)
(* not.                                                                    *)
(***************************************************************************)
GetHeaderDropReason(relay, answer, parentHashHex) ==
    LET p == answer.payload
        m == p.message
        v == VerifySignature(m, builderSigningDomain, RelayPublicKey(relay), p.signature)
    IN  IF answer.err THEN "error making request to relay"
        ELSE IF answer.code = 204 THEN "no-content response"
        ELSE IF p.data # "ok" \/ m.blockHash = nilHash THEN "invalid payload"
        ELSE IF RelayPublicKey(relay) # m.pubkey THEN "bid pubkey mismatch"
        ELSE IF v.err THEN "error verifying relay signature"
        ELSE IF ~v.ok THEN "failed to verify relay signature"
        ELSE IF HashString(m.parentHash) # parentHashHex
             THEN "proposer and relay parent hashes are not the same"
        ELSE IF ValueString(m.value) = "0" \/ HashString(m.transactionsRoot) = EmptyListTxRoot
             THEN "ignoring bid with 0 value"
        ELSE ""

\* The answers of a relay, by what the checks make of them: the log lines of
\* the dropped ones, and the answers that pass.
DropReasons ==
    [r \in Relays, parentHashHex \in ParentHashStrings |->
        {GetHeaderDropReason(r, answer, parentHashHex) : answer \in HeaderAnswers}]

AcceptedAnswers ==
    [r \in Relays, parentHashHex \in ParentHashStrings |->
        {answer \in HeaderAnswers : GetHeaderDropReason(r, answer, parentHashHex) = ""}]

(***************************************************************************)
(* bidResp and the bid cache m.bids: a map from bidRespKey to bidResp.     *)
(***************************************************************************)
\* the zero bidResp: what a map lookup of a missing key yields
NoBidResp == [response |-> NoHeaderResponse, blockHash |-> "", t |-> 0, relays |-> <<>>]

BidRespKey(slot, blockHash) == [slot |-> slot, blockHash |-> blockHash]

\* m.bids[bidKey] = result
BidsStore(bs, key, rec) == [k \in DOMAIN bs \cup {key} |-> IF k = key THEN rec ELSE bs[k]]

\* A lookup by block hash alone.
BidsLoadAnySlot(bs, key) ==
    IF \E k \in DOMAIN bs : k.blockHash = key.blockHash
    THEN bs[CHOOSE k \in DOMAIN bs : k.blockHash = key.blockHash]
    ELSE NoBidResp

\* originalResp := m.bids[bidKey]
BidsLoad(bs, key) == IF key \in DOMAIN bs THEN bs[key] ELSE NoBidResp

\* The relay replaces the list instead of being appended to it.
RecordRelayOverwrites(relays, blockHash, relayStr) ==
    [k \in DOMAIN relays \cup {blockHash} |-> IF k = blockHash THEN <<relayStr>> ELSE relays[k]]

\* Lines 365-370: relays[blockHash] gets the relay appended
RecordRelay(relays, blockHash, relayStr) ==
    IF blockHash \notin DOMAIN relays
    THEN [k \in DOMAIN relays \cup {blockHash} |->
            IF k = blockHash THEN <<relayStr>> ELSE relays[k]]
    ELSE [relays EXCEPT ![blockHash] = Append(relays[blockHash], relayStr)]

\* Line 395: relays[result.blockHash], nil when the map has no such key
RelaysOf(relays, blockHash) ==
    IF blockHash \in DOMAIN relays THEN relays[blockHash] ELSE <<>>

\* The test against the rendering of the zero hash instead of the empty string.
NoBidReceivedZeroHash(result) == result.blockHash = HashString(nilHash)

\* Line 388: no bid received
NoBidReceived(result) == result.blockHash = ""

\* Only a lower bid is skipped: a tie displaces the current result.
SkipBidOnlyLower(result, responsePayload) ==
    /\ result.response.data # "nil"
    /\ Cmp(responsePayload.message.value, result.response.message.value) < 0

\* Every bid that finds a result is skipped: the first to arrive stays.
SkipBidAfterFirst(result, responsePayload) ==
    result.response.data # "nil"

\* Line 373: the bid does not outbid the current result
SkipBid(result, responsePayload) ==
    /\ result.response.data # "nil"
    /\ Cmp(responsePayload.message.value, result.response.message.value) < 1

\* Lines 372-381: the result after a bid went through the critical section
SelectBid(result, responsePayload, time) ==
    IF SkipBid(result, responsePayload) THEN result
    ELSE [result EXCEPT !.response = responsePayload,
                        !.blockHash = HashString(responsePayload.message.blockHash),
                        !.t = time]

(***************************************************************************)
(* State.                                                                  *)
(***************************************************************************)
\* handleGetHeader may run in several instances at once; each has its own
\* locals (mu, relays, result, the goroutines).
HandlerIds == {"A", "B"}

VARIABLES
    \* BoostService
    bids,        \* m.bids: bidRespKey -> bidResp
    bidsLock,    \* m.bidsLock: "free" or the name of its holder
    relayCheck,  \* m.relayCheck
    now,         \* the wall clock, in minutes
    nreq,        \* requests accepted so far
    \* handleGetHeader, per instance
    hpc,         \* position of the handler
    hreq,        \* slot, parentHashHex, pubkey
    hmu,         \* mu: 0 when free, else the relay whose goroutine holds it
    hrelays,     \* relays: blockHash -> relay strings
    hresult,     \* result
    htask,       \* the relay goroutines: position, responsePayload, log line
    hreply,      \* what was written to w
    haccepted,   \* history: the bids that went through the critical section, in order
    hbidsBefore, \* history: m.bids when the request came in
    \* handleGetPayload
    ppc,         \* position of the handler
    preq,        \* the decoded SignedBlindedBeaconBlock: slot and block hash
    pmu,         \* mu: 0 when free, else the relay whose goroutine holds it
    pctx,        \* requestCtx.Err() != nil
    presult,     \* result
    ptask,       \* the relay goroutines: position, responsePayload, log line
    preply,      \* what was written to w
    plogged,     \* the "relays" field of the withholding log line
    pentered,    \* history: the relays whose goroutine took mu, in order
    pwriters,    \* history: the relays whose goroutine wrote result, in order
    \* handleStatus
    spc,         \* position of the handler
    sctx,        \* ctx.Err() == context.Canceled
    scount,      \* numSuccessRequestsToRelay
    stask,       \* the relay goroutines: position and err
    sreply,      \* what was written to w
    \* handleRegisterValidator
    regpc,       \* position of the handler
    regreq,      \* the request body
    regch,       \* relayRespCh
    regi,        \* the loop counter i
    regtask,     \* the relay goroutines: position and err
    regreply,    \* what was written to w
    regprev,     \* history: body, relay outcomes and verdict of the call before
    \* startBidCacheCleanupTask
    swpc,        \* position of the sweeper
    swwake,      \* the time at which time.Sleep returns
    swbefore,    \* history: m.bids when the sweep began
    swtime       \* history: the time of the sweep

cvars == <<bids, bidsLock, relayCheck, now, nreq>>
hvars == <<hpc, hreq, hmu, hrelays, hresult, htask, hreply, haccepted, hbidsBefore>>
pvars == <<ppc, preq, pmu, pctx, presult, ptask, preply, plogged, pentered, pwriters>>
svars == <<spc, sctx, scount, stask, sreply>>
regvars == <<regpc, regreq, regch, regi, regtask, regreply, regprev>>
swvars == <<swpc, swwake, swbefore, swtime>>
vars == <<cvars, hvars, pvars, svars, regvars, swvars>>

NoReply == [code |-> 0, message |-> "", body |-> NoHeaderResponse]
\* Line 390: w.WriteHeader(http.StatusNoContent)
NoBidReply == [NoReply EXCEPT !.code = 204]
NoHeaderRequest == [slot |-> <<>>, parentHashHex |-> "", pubkey |-> ""]
NoTask == [pc |-> "none", responsePayload |-> NoHeaderResponse, log |-> ""]

InitCache ==
    /\ bids = <<>>
    /\ bidsLock = "free"
    /\ now = 1
    /\ nreq = 0

InitGetHeader ==
    /\ hpc = [h \in HandlerIds |-> "idle"]
    /\ hreq = [h \in HandlerIds |-> NoHeaderRequest]
    /\ hmu = [h \in HandlerIds |-> 0]
    /\ hrelays = [h \in HandlerIds |-> <<>>]
    /\ hresult = [h \in HandlerIds |-> NoBidResp]
    /\ htask = [h \in HandlerIds |-> [r \in Relays |-> NoTask]]
    /\ hreply = [h \in HandlerIds |-> NoReply]
    /\ haccepted = [h \in HandlerIds |-> <<>>]
    /\ hbidsBefore = [h \in HandlerIds |-> <<>>]

(***************************************************************************)
(* handleGetHeader.                                                        *)
(***************************************************************************)
\* Lines 260-299: the request comes in, is checked, and the goroutines start.
GetHeaderStart(h, slot, parentHashHex, pubkey) ==
    /\ hpc[h] = "idle"
    /\ nreq < MaxRequests
    /\ nreq' = nreq + 1
    /\ hreq' = [hreq EXCEPT ![h] =
                  [slot |-> slot, parentHashHex |-> parentHashHex, pubkey |-> pubkey]]
    /\ hbidsBefore' = [hbidsBefore EXCEPT ![h] = bids]
    /\ LET e == GetHeaderArgsError(slot, parentHashHex, pubkey)
       IN  IF e # ""
           THEN /\ hreply' = [hreply EXCEPT ![h] = [NoReply EXCEPT !.code = 400, !.message = e]]
                /\ hpc' = [hpc EXCEPT ![h] = "done"]
                /\ UNCHANGED htask
           ELSE /\ htask' = [htask EXCEPT ![h] = [r \in Relays |-> [NoTask EXCEPT !.pc = "send"]]]
                /\ hpc' = [hpc EXCEPT ![h] = "wait"]
                /\ UNCHANGED hreply
    /\ UNCHANGED <<hmu, hrelays, hresult, haccepted>>
    /\ UNCHANGED <<bids, bidsLock, relayCheck, now, swvars, pvars, svars, regvars>>

\* Lines 301-360: SendHTTPRequest returns and the goroutine checks the answer.
\* A dropped answer leaves only its log line; an accepted one is kept for the
\* critical section.
GetHeaderRelayDrops(h, r, reason) ==
    /\ htask[h][r].pc = "send"
    /\ reason \in DropReasons[r, hreq[h].parentHashHex] \ {""}
    /\ htask' = [htask EXCEPT ![h][r] =
                    [pc |-> "done", responsePayload |-> NoHeaderResponse, log |-> reason]]
    /\ UNCHANGED <<hpc, hreq, hmu, hrelays, hresult, hreply, haccepted, hbidsBefore>>
    /\ UNCHANGED <<cvars, swvars, pvars, svars, regvars>>

GetHeaderRelayDelivers(h, r, answer) ==
    /\ htask[h][r].pc = "send"
    /\ answer \in AcceptedAnswers[r, hreq[h].parentHashHex]
    /\ htask' = [htask EXCEPT ![h][r] =
                    [pc |-> "lock", responsePayload |-> answer.payload, log |-> ""]]
    /\ UNCHANGED <<hpc, hreq, hmu, hrelays, hresult, hreply, haccepted, hbidsBefore>>
    /\ UNCHANGED <<cvars, swvars, pvars, svars, regvars>>

GetHeaderRelayResponse(h, r) ==
    \/ \E reason \in DropReasons[r, hreq[h].parentHashHex] : GetHeaderRelayDrops(h, r, reason)
    \/ \E answer \in AcceptedAnswers[r, hreq[h].parentHashHex] : GetHeaderRelayDelivers(h, r, answer)

\* Line 362: mu.Lock()
GetHeaderLock(h, r) ==
    /\ htask[h][r].pc = "lock"
    /\ hmu[h] = 0
    /\ hmu' = [hmu EXCEPT ![h] = r]
    /\ htask' = [htask EXCEPT ![h][r].pc = "crit"]
    /\ UNCHANGED <<hpc, hreq, hrelays, hresult, hreply, haccepted, hbidsBefore>>
    /\ UNCHANGED <<cvars, swvars, pvars, svars, regvars>>

\* Lines 363-382: the critical section, the deferred mu.Unlock() and wg.Done()
GetHeaderSelect(h, r) ==
    /\ htask[h][r].pc = "crit"
    /\ hmu[h] = r
    /\ LET p == htask[h][r].responsePayload
       IN  /\ hrelays' = [hrelays EXCEPT ![h] =
                            RecordRelay(hrelays[h], HashString(p.message.blockHash), RelayString(r))]
           /\ hresult' = [hresult EXCEPT ![h] = SelectBid(hresult[h], p, now)]
           /\ haccepted' = [haccepted EXCEPT ![h] = Append(@, [relay |-> r, payload |-> p])]
    /\ hmu' = [hmu EXCEPT ![h] = 0]
    /\ htask' = [htask EXCEPT ![h][r].pc = "done", ![h][r].log = "received a good bid"]
    /\ UNCHANGED <<hpc, hreq, hreply, hbidsBefore>>
    /\ UNCHANGED <<cvars, swvars, pvars, svars, regvars>>

\* The handler goes on as soon as one goroutine has ended, without waiting for
\* the others.
GetHeaderWaitForOne(h) ==
    /\ hpc[h] = "wait"
    /\ \E r \in Relays : htask[h][r].pc = "done"
    /\ IF NoBidReceived(hresult[h])
       THEN /\ hreply' = [hreply EXCEPT ![h] = NoBidReply]
            /\ hpc' = [hpc EXCEPT ![h] = "done"]
            /\ UNCHANGED hresult
       ELSE /\ hresult' = [hresult EXCEPT ![h].relays = RelaysOf(hrelays[h], hresult[h].blockHash)]
            /\ hpc' = [hpc EXCEPT ![h] = "bidsLock"]
            /\ UNCHANGED hreply
    /\ UNCHANGED <<hreq, hmu, hrelays, htask, haccepted, hbidsBefore>>
    /\ UNCHANGED <<cvars, swvars, pvars, svars, regvars>>

\* Lines 386-395: wg.Wait() returns; no bid: 204, else result.relays is set
GetHeaderWait(h) ==
    /\ hpc[h] = "wait"
    /\ \A r \in Relays : htask[h][r].pc = "done"
    /\ IF NoBidReceived(hresult[h])
       THEN /\ hreply' = [hreply EXCEPT ![h] = NoBidReply]
            /\ hpc' = [hpc EXCEPT ![h] = "done"]
            /\ UNCHANGED hresult
       ELSE /\ hresult' = [hresult EXCEPT ![h].relays = RelaysOf(hrelays[h], hresult[h].blockHash)]
            /\ hpc' = [hpc EXCEPT ![h] = "bidsLock"]
            /\ UNCHANGED hreply
    /\ UNCHANGED <<hreq, hmu, hrelays, htask, haccepted, hbidsBefore>>
    /\ UNCHANGED <<cvars, swvars, pvars, svars, regvars>>

\* The handler goes on to the store without taking the guard.
GetHeaderBidsLockSkipped(h) ==
    /\ hpc[h] = "bidsLock"
    /\ hpc' = [hpc EXCEPT ![h] = "store"]
    /\ UNCHANGED <<hreq, hmu, hrelays, hresult, htask, hreply, haccepted, hbidsBefore>>
    /\ UNCHANGED <<bids, bidsLock, relayCheck, now, nreq, swvars, pvars, svars, regvars>>

\* Line 406: m.bidsLock.Lock()
GetHeaderBidsLock(h) ==
    /\ hpc[h] = "bidsLock"
    /\ bidsLock = "free"
    /\ bidsLock' = h
    /\ hpc' = [hpc EXCEPT ![h] = "store"]
    /\ UNCHANGED <<hreq, hmu, hrelays, hresult, htask, hreply, haccepted, hbidsBefore>>
    /\ UNCHANGED <<bids, relayCheck, now, nreq, swvars, pvars, svars, regvars>>

\* The key is made of the request's parent hash instead of the block hash.
GetHeaderStoreUnderParentHash(h) ==
    /\ hpc[h] = "store"
    /\ bidsLock = h
    /\ bids' = BidsStore(bids, BidRespKey(ParseUint(hreq[h].slot).val, hreq[h].parentHashHex),
                         hresult[h])
    /\ bidsLock' = "free"
    /\ hpc' = [hpc EXCEPT ![h] = "respond"]
    /\ UNCHANGED <<hreq, hmu, hrelays, hresult, htask, hreply, haccepted, hbidsBefore>>
    /\ UNCHANGED <<relayCheck, now, nreq, swvars, pvars, svars, regvars>>

\* Lines 405-408: m.bids[bidKey] = result; m.bidsLock.Unlock()
GetHeaderStore(h) ==
    /\ hpc[h] = "store"
    /\ bidsLock = h
    /\ bids' = BidsStore(bids, BidRespKey(ParseUint(hreq[h].slot).val, hresult[h].blockHash),
                         hresult[h])
    /\ bidsLock' = "free"
    /\ hpc' = [hpc EXCEPT ![h] = "respond"]
    /\ UNCHANGED <<hreq, hmu, hrelays, hresult, htask, hreply, haccepted, hbidsBefore>>
    /\ UNCHANGED <<relayCheck, now, nreq, swvars, pvars, svars, regvars>>

\* Line 411: m.respondOK(w, result.response)
GetHeaderRespond(h) ==
    /\ hpc[h] = "respond"
    /\ hreply' = [hreply EXCEPT ![h] = [NoReply EXCEPT !.code = 200, !.body = hresult[h].response]]
    /\ hpc' = [hpc EXCEPT ![h] = "done"]
    /\ UNCHANGED <<hreq, hmu, hrelays, hresult, htask, haccepted, hbidsBefore>>
    /\ UNCHANGED <<cvars, swvars, pvars, svars, regvars>>

\* The handler returns; its locals are gone.
GetHeaderReturn(h) ==
    /\ hpc[h] = "done"
    /\ hpc' = [hpc EXCEPT ![h] = "idle"]
    /\ hreq' = [hreq EXCEPT ![h] = NoHeaderRequest]
    /\ hrelays' = [hrelays EXCEPT ![h] = <<>>]
    /\ hresult' = [hresult EXCEPT ![h] = NoBidResp]
    /\ htask' = [htask EXCEPT ![h] = [r \in Relays |-> NoTask]]
    /\ hreply' = [hreply EXCEPT ![h] = NoReply]
    /\ haccepted' = [haccepted EXCEPT ![h] = <<>>]
    /\ hbidsBefore' = [hbidsBefore EXCEPT ![h] = <<>>]
    /\ UNCHANGED hmu
    /\ UNCHANGED <<cvars, swvars, pvars, svars, regvars>>

(***************************************************************************)
(* handleGetPayload.                                                       *)
(***************************************************************************)
\* the zero types.GetPayloadResponse: Data == nil
NoPayloadResponse == [data |-> "nil", blockHash |-> nilHash, body |-> ""]
NoPayloadReply == [code |-> 0, message |-> "", body |-> NoPayloadResponse]
NoPayloadRequest == [decodable |-> FALSE, slot |-> <<>>, blockHash |-> nilHash]
NoPayloadTask == [pc |-> "none", responsePayload |-> NoPayloadResponse, log |-> ""]

\* The request bodies: one that does not decode, and blinded blocks.
PayloadRequests ==
    {NoPayloadRequest} \cup
    [decodable : {TRUE}, slot : {<<"4","2">>, MaxUint64Numeral},
     blockHash : BlockHashes \cup {nilHash}]

\* What SendHTTPRequest hands back from relay r.  body stands for the rest of
\* the execution payload, which differs from relay to relay.
PayloadAnswers(r) ==
    {[err |-> TRUE, payload |-> NoPayloadResponse],
     [err |-> FALSE, payload |-> NoPayloadResponse]}
    \cup {[err |-> FALSE, payload |-> [data |-> "ok", blockHash |-> b, body |-> RelayString(r)]] :
            b \in BlockHashes \cup {nilHash}}

\* The checks without the comparison of the block hashes.
GetPayloadDropReasonNoHashCheck(request, answer) ==
    IF answer.err THEN "error making request to relay"
    ELSE IF answer.payload.data = "nil" \/ answer.payload.blockHash = nilHash
         THEN "response with empty data!"
    ELSE ""

\* Lines 445-461: the reason the answer is dropped, "" when it is not.
GetPayloadDropReason(request, answer) ==
    IF answer.err THEN "error making request to relay"
    ELSE IF answer.payload.data = "nil" \/ answer.payload.blockHash = nilHash
         THEN "response with empty data!"
    ELSE IF request.blockHash # answer.payload.blockHash
         THEN "requestBlockHash does not equal responseBlockHash"
    ELSE ""

\* The critical section without the look at requestCtx.Err().
PayloadCriticalSectionNoRecheck(cancelled, result, responsePayload) ==
    [cancelled |-> TRUE, result |-> responsePayload, wrote |-> TRUE]

\* Lines 467-473: the critical section, from the cancellation flag and the result
\* it finds to those it leaves.
PayloadCriticalSection(cancelled, result, responsePayload) ==
    IF cancelled
    THEN [cancelled |-> cancelled, result |-> result, wrote |-> FALSE]
    ELSE [cancelled |-> TRUE, result |-> responsePayload, wrote |-> TRUE]

\* Line 482: no payload has been received
NoPayloadReceived(result) == result.data = "nil" \/ result.blockHash = nilHash

InitGetPayload ==
    /\ ppc = "idle"
    /\ preq = NoPayloadRequest
    /\ pmu = 0
    /\ pctx = FALSE
    /\ presult = NoPayloadResponse
    /\ ptask = [r \in Relays |-> NoPayloadTask]
    /\ preply = NoPayloadReply
    /\ plogged = <<>>
    /\ pentered = <<>>
    /\ pwriters = <<>>

\* Lines 414-437: the body is decoded and the goroutines start.
GetPayloadStart(request) ==
    /\ ppc = "idle"
    /\ nreq < MaxRequests
    /\ nreq' = nreq + 1
    /\ preq' = request
    /\ IF ~request.decodable
       THEN /\ preply' = [NoPayloadReply EXCEPT !.code = 400, !.message = "decode error"]
            /\ ppc' = "done"
            /\ UNCHANGED ptask
       ELSE /\ ptask' = [r \in Relays |-> [NoPayloadTask EXCEPT !.pc = "send"]]
            /\ ppc' = "wait"
            /\ UNCHANGED preply
    /\ UNCHANGED <<pmu, pctx, presult, plogged, pentered, pwriters>>
    /\ UNCHANGED <<bids, bidsLock, relayCheck, now, swvars, hvars, svars, regvars>>

\* A goroutine whose answer is dropped cancels requestCtx on its way out.
GetPayloadRelayResponseCancels(r, answer) ==
    /\ ptask[r].pc = "send"
    /\ LET reason == GetPayloadDropReason(preq, answer)
       IN  /\ ptask' = [ptask EXCEPT ![r] =
                IF reason = ""
                THEN [pc |-> "lock", responsePayload |-> answer.payload, log |-> ""]
                ELSE [pc |-> "done", responsePayload |-> NoPayloadResponse, log |-> reason]]
           /\ pctx' = (pctx \/ reason # "")
    /\ UNCHANGED <<ppc, preq, pmu, presult, preply, plogged, pentered, pwriters>>
    /\ UNCHANGED <<cvars, swvars, hvars, svars, regvars>>

\* Lines 438-461: SendHTTPRequest returns (with an answer, or with an error, as
\* it does when requestCtx is cancelled) and the goroutine checks the answer.
GetPayloadRelayResponse(r, answer) ==
    /\ ptask[r].pc = "send"
    /\ LET reason == GetPayloadDropReason(preq, answer)
       IN  ptask' = [ptask EXCEPT ![r] =
                IF reason = ""
                THEN [pc |-> "lock", responsePayload |-> answer.payload, log |-> ""]
                ELSE [pc |-> "done", responsePayload |-> NoPayloadResponse, log |-> reason]]
    /\ UNCHANGED <<ppc, preq, pmu, pctx, presult, preply, plogged, pentered, pwriters>>
    /\ UNCHANGED <<cvars, swvars, hvars, svars, regvars>>

\* Line 464: mu.Lock()
GetPayloadLock(r) ==
    /\ ptask[r].pc = "lock"
    /\ pmu = 0
    /\ pmu' = r
    /\ ptask' = [ptask EXCEPT ![r].pc = "crit"]
    /\ pentered' = Append(pentered, r)
    /\ UNCHANGED <<ppc, preq, pctx, presult, preply, plogged, pwriters>>
    /\ UNCHANGED <<cvars, swvars, hvars, svars, regvars>>

\* Lines 465-475: the critical section, the deferred mu.Unlock() and wg.Done()
GetPayloadDeliverKeepsLock(r) ==
    /\ ptask[r].pc = "crit"
    /\ pmu = r
    /\ LET after == PayloadCriticalSection(pctx, presult, ptask[r].responsePayload)
       IN  /\ pctx' = after.cancelled
           /\ presult' = after.result
           /\ pwriters' = IF after.wrote THEN Append(pwriters, r) ELSE pwriters
           /\ ptask' = [ptask EXCEPT ![r].pc = "done",
                          ![r].log = IF after.wrote THEN "received payload from relay"
                                     ELSE "request cancelled"]
           /\ pmu' = IF after.wrote THEN 0 ELSE pmu
    /\ UNCHANGED <<ppc, preq, preply, plogged, pentered>>
    /\ UNCHANGED <<cvars, swvars, hvars, svars, regvars>>

GetPayloadDeliver(r) ==
    /\ ptask[r].pc = "crit"
    /\ pmu = r
    /\ LET after == PayloadCriticalSection(pctx, presult, ptask[r].responsePayload)
       IN  /\ pctx' = after.cancelled
           /\ presult' = after.result
           /\ pwriters' = IF after.wrote THEN Append(pwriters, r) ELSE pwriters
           /\ ptask' = [ptask EXCEPT ![r].pc = "done",
                          ![r].log = IF after.wrote THEN "received payload from relay"
                                     ELSE "request cancelled"]
    /\ pmu' = 0
    /\ UNCHANGED <<ppc, preq, preply, plogged, pentered>>
    /\ UNCHANGED <<cvars, swvars, hvars, svars, regvars>>

\* Lines 479-492: wg.Wait() returns; a payload: 200, else the withholding path
GetPayloadWait ==
    /\ ppc = "wait"
    /\ \A r \in Relays : ptask[r].pc = "done"
    /\ IF NoPayloadReceived(presult)
       THEN /\ ppc' = "bidsLock"
            /\ UNCHANGED preply
       ELSE /\ preply' = [NoPayloadReply EXCEPT !.code = 200, !.body = presult]
            /\ ppc' = "done"
    /\ UNCHANGED <<preq, pmu, pctx, presult, ptask, plogged, pentered, pwriters>>
    /\ UNCHANGED <<cvars, swvars, hvars, svars, regvars>>

\* Line 484: m.bidsLock.Lock()
GetPayloadBidsLock ==
    /\ ppc = "bidsLock"
    /\ bidsLock = "free"
    /\ bidsLock' = "getPayload"
    /\ ppc' = "lookup"
    /\ UNCHANGED <<preq, pmu, pctx, presult, ptask, preply, plogged, pentered, pwriters>>
    /\ UNCHANGED <<bids, relayCheck, now, nreq, swvars, hvars, svars, regvars>>

\* The record that was looked up is taken out of the cache.
GetPayloadWithheldEvicts ==
    /\ ppc = "lookup"
    /\ bidsLock = "getPayload"
    /\ plogged' = BidsLoad(bids, BidRespKey(preq.slot, HashString(preq.blockHash))).relays
    /\ bids' = [k \in DOMAIN bids \ {BidRespKey(preq.slot, HashString(preq.blockHash))} |-> bids[k]]
    /\ bidsLock' = "free"
    /\ preply' = [NoPayloadReply EXCEPT !.code = 502, !.message = "no successful relay response"]
    /\ ppc' = "done"
    /\ UNCHANGED <<preq, pmu, pctx, presult, ptask, pentered, pwriters>>
    /\ UNCHANGED <<relayCheck, now, nreq, swvars, hvars, svars, regvars>>

\* Lines 483-489: originalResp := m.bids[bidKey]; unlock; log its relays; 502
GetPayloadWithheld ==
    /\ ppc = "lookup"
    /\ bidsLock = "getPayload"
    /\ plogged' = BidsLoad(bids, BidRespKey(preq.slot, HashString(preq.blockHash))).relays
    /\ bidsLock' = "free"
    /\ preply' = [NoPayloadReply EXCEPT !.code = 502, !.message = "no successful relay response"]
    /\ ppc' = "done"
    /\ UNCHANGED <<preq, pmu, pctx, presult, ptask, pentered, pwriters>>
    /\ UNCHANGED <<bids, relayCheck, now, nreq, swvars, hvars, svars, regvars>>

\* The handler returns (the deferred requestCtxCancel runs); its locals are gone.
GetPayloadReturn ==
    /\ ppc = "done"
    /\ ppc' = "idle"
    /\ preq' = NoPayloadRequest
    /\ pctx' = FALSE
    /\ presult' = NoPayloadResponse
    /\ ptask' = [r \in Relays |-> NoPayloadTask]
    /\ preply' = NoPayloadReply
    /\ plogged' = <<>>
    /\ pentered' = <<>>
    /\ pwriters' = <<>>
    /\ UNCHANGED pmu
    /\ UNCHANGED <<cvars, swvars, hvars, svars, regvars>>

(***************************************************************************)
(* handleStatus.                                                           *)
(***************************************************************************)
NoStatusTask == [pc |-> "none", err |-> FALSE]
NoStatusReply == [code |-> 0, message |-> ""]

\* The test of the context turned around: ctx.Err() == context.Canceled.
StatusRequestFailedInverted(err, cancelled) == err /\ cancelled

\* Line 194: the goroutine logs the failure and returns without counting
StatusRequestFailed(err, cancelled) == err /\ ~cancelled

\* Line 208
StatusVerdict(numSuccessRequestsToRelay) ==
    IF numSuccessRequestsToRelay > 0
    THEN [code |-> 200, message |-> ""]
    ELSE [code |-> 503, message |-> "all relays are unavailable"]

InitStatus ==
    /\ spc = "idle"
    /\ sctx = FALSE
    /\ scount = 0
    /\ stask = [r \in Relays |-> NoStatusTask]
    /\ sreply = NoStatusReply

\* Lines 171-186: without relayCheck reply at once, else start the goroutines
StatusStart ==
    /\ spc = "idle"
    /\ nreq < MaxRequests
    /\ nreq' = nreq + 1
    /\ IF ~relayCheck
       THEN /\ sreply' = [code |-> 200, message |-> ""]
            /\ spc' = "done"
            /\ UNCHANGED stask
       ELSE /\ stask' = [r \in Relays |-> [pc |-> "send", err |-> FALSE]]
            /\ spc' = "wait"
            /\ UNCHANGED sreply
    /\ UNCHANGED <<sctx, scount>>
    /\ UNCHANGED <<bids, bidsLock, relayCheck, now, swvars, hvars, pvars, regvars>>

\* Line 193: SendHTTPRequest returns, with an error or without
StatusRelayResponse(r, err) ==
    /\ stask[r].pc = "send"
    /\ stask' = [stask EXCEPT ![r] = [pc |-> "check", err |-> err]]
    /\ UNCHANGED <<spc, sctx, scount, sreply>>
    /\ UNCHANGED <<cvars, swvars, hvars, pvars, regvars>>

\* Lines 194-197: err and ctx.Err() are looked at
StatusCheck(r) ==
    /\ stask[r].pc = "check"
    /\ stask' = [stask EXCEPT ![r].pc =
                    IF StatusRequestFailed(stask[r].err, sctx) THEN "done" ELSE "add"]
    /\ UNCHANGED <<spc, sctx, scount, sreply>>
    /\ UNCHANGED <<cvars, swvars, hvars, pvars, regvars>>

\* Line 200: atomic.AddUint32(&numSuccessRequestsToRelay, 1)
StatusAdd(r) ==
    /\ stask[r].pc = "add"
    /\ scount' = scount + 1
    /\ stask' = [stask EXCEPT ![r].pc = "cancel"]
    /\ UNCHANGED <<spc, sctx, sreply>>
    /\ UNCHANGED <<cvars, swvars, hvars, pvars, regvars>>

\* Lines 201-202: cancel() and the deferred wg.Done()
StatusCancel(r) ==
    /\ stask[r].pc = "cancel"
    /\ sctx' = TRUE
    /\ stask' = [stask EXCEPT ![r].pc = "done"]
    /\ UNCHANGED <<spc, scount, sreply>>
    /\ UNCHANGED <<cvars, swvars, hvars, pvars, regvars>>

\* Lines 206-212: wg.Wait() returns and the handler replies
StatusWait ==
    /\ spc = "wait"
    /\ \A r \in Relays : stask[r].pc = "done"
    /\ sreply' = StatusVerdict(scount)
    /\ spc' = "done"
    /\ UNCHANGED <<sctx, scount, stask>>
    /\ UNCHANGED <<cvars, swvars, hvars, pvars, regvars>>

\* The handler returns; its locals are gone.
StatusReturn ==
    /\ spc = "done"
    /\ spc' = "idle"
    /\ sctx' = FALSE
    /\ scount' = 0
    /\ stask' = [r \in Relays |-> NoStatusTask]
    /\ sreply' = NoStatusReply
    /\ UNCHANGED <<cvars, swvars, hvars, pvars, regvars>>

NextStatus ==
    \/ StatusStart
    \/ \E r \in Relays, err \in BOOLEAN : StatusRelayResponse(r, err)
    \/ \E r \in Relays : StatusCheck(r)
    \/ \E r \in Relays : StatusAdd(r)
    \/ \E r \in Relays : StatusCancel(r)
    \/ StatusWait
    \/ StatusReturn

(***************************************************************************)
(* handleRegisterValidator.                                                *)
(***************************************************************************)
NoRegisterTask == [pc |-> "none", err |-> FALSE]
NoRegisterReply == [code |-> 0, message |-> ""]
NoRegisterRequest == [decodable |-> FALSE, body |-> ""]
NoRegisterCall == [body |-> "", errs |-> <<>>, code |-> 0]

\* The request bodies: one that does not decode, and registration batches.
RegisterRequests ==
    {NoRegisterRequest} \cup [decodable : {TRUE}, body : {"registrationsA", "registrationsB"}]

\* The loop gives up on the first error.
RegisterReceivedFirstOnly(respErr, i) ==
    IF ~respErr THEN [code |-> 200, message |-> "", i |-> i]
    ELSE [code |-> 502, message |-> "no successful relay response", i |-> i + 1]

\* Lines 248-256: one turn of the loop on the error received from the channel:
\* the reply it makes (code 0: none yet) and the loop counter after it.
RegisterReceived(respErr, i) ==
    IF ~respErr THEN [code |-> 200, message |-> "", i |-> i]
    ELSE IF i + 1 < NumRelays THEN [code |-> 0, message |-> "", i |-> i + 1]
    ELSE [code |-> 502, message |-> "no successful relay response", i |-> i + 1]

InitRegister ==
    /\ regpc = "idle"
    /\ regreq = NoRegisterRequest
    /\ regch = <<>>
    /\ regi = 0
    /\ regtask = [r \in Relays |-> NoRegisterTask]
    /\ regreply = NoRegisterReply
    /\ regprev = NoRegisterCall

\* Lines 216-246: the body is decoded, the channel made and the goroutines start.
RegisterStart(request) ==
    /\ regpc = "idle"
    /\ nreq < MaxRequests
    /\ nreq' = nreq + 1
    /\ regreq' = request
    /\ IF ~request.decodable
       THEN /\ regreply' = [code |-> 400, message |-> "decode error"]
            /\ regpc' = "done"
            /\ UNCHANGED regtask
       ELSE /\ regtask' = [r \in Relays |-> [pc |-> "send", err |-> FALSE]]
            /\ regpc' = "recv"
            /\ UNCHANGED regreply
    /\ UNCHANGED <<regch, regi, regprev>>
    /\ UNCHANGED <<bids, bidsLock, relayCheck, now, swvars, hvars, pvars, svars>>

\* Line 239: SendHTTPRequest returns, with an error or without
RegisterRelayResponse(r, err) ==
    /\ regtask[r].pc = "send"
    /\ regtask' = [regtask EXCEPT ![r] = [pc |-> "push", err |-> err]]
    /\ UNCHANGED <<regpc, regreq, regch, regi, regreply, regprev>>
    /\ UNCHANGED <<cvars, swvars, hvars, pvars, svars>>

\* The channel made without a buffer: a send goes through only while the handler
\* is at the receive.
RegisterPushUnbuffered(r) ==
    /\ regtask[r].pc = "push"
    /\ regpc = "recv"
    /\ regch = <<>>
    /\ regch' = Append(regch, regtask[r].err)
    /\ regtask' = [regtask EXCEPT ![r].pc = "done"]
    /\ UNCHANGED <<regpc, regreq, regi, regreply, regprev>>
    /\ UNCHANGED <<cvars, swvars, hvars, pvars, svars>>

\* Lines 240-244: relayRespCh <- err, which blocks while the channel is full
RegisterPush(r) ==
    /\ regtask[r].pc = "push"
    /\ Len(regch) < NumRelays
    /\ regch' = Append(regch, regtask[r].err)
    /\ regtask' = [regtask EXCEPT ![r].pc = "done"]
    /\ UNCHANGED <<regpc, regreq, regi, regreply, regprev>>
    /\ UNCHANGED <<cvars, swvars, hvars, pvars, svars>>

\* Lines 248-256: respErr := <-relayRespCh, and what the loop does with it
RegisterReceive ==
    /\ regpc = "recv"
    /\ regch # <<>>
    /\ LET turn == RegisterReceived(Head(regch), regi)
       IN  /\ regi' = turn.i
           /\ regreply' = [code |-> turn.code, message |-> turn.message]
           /\ regpc' = IF turn.code = 0 THEN "recv" ELSE "done"
    /\ regch' = Tail(regch)
    /\ UNCHANGED <<regreq, regtask, regprev>>
    /\ UNCHANGED <<cvars, swvars, hvars, pvars, svars>>

\* The handler has returned and its goroutines have ended: the call is over.
RegisterReturn ==
    /\ regpc = "done"
    /\ \A r \in Relays : regtask[r].pc \in {"none", "done"}
    /\ regprev' = [body |-> regreq.body, errs |-> [r \in Relays |-> regtask[r].err],
                   code |-> regreply.code]
    /\ regpc' = "idle"
    /\ regreq' = NoRegisterRequest
    /\ regch' = <<>>
    /\ regi' = 0
    /\ regtask' = [r \in Relays |-> NoRegisterTask]
    /\ regreply' = NoRegisterReply
    /\ UNCHANGED <<cvars, swvars, hvars, pvars, svars>>

NextRegister ==
    \/ \E request \in RegisterRequests : RegisterStart(request)
    \/ \E r \in Relays, err \in BOOLEAN : RegisterRelayResponse(r, err)
    \/ \E r \in Relays : RegisterPush(r)
    \/ RegisterReceive
    \/ RegisterReturn

(***************************************************************************)
(* startBidCacheCleanupTask, the sweeper of the bid cache, and the clock.  *)
(***************************************************************************)
\* time.Sleep(1 * time.Minute)
BidCacheSweepPeriod == 1
\* 3 * time.Minute
BidCacheMaxAge == 3

\* An entry is deleted as soon as its age reaches the limit.
ExpiredAtMaxAge(t, time) == time - t >= BidCacheMaxAge

\* Line 157: time.Since(bidResp.t) > 3*time.Minute
Expired(t, time) == time - t > BidCacheMaxAge

\* Lines 156-160: the map after the loop has deleted the expired entries
Sweep(bs, time) == [k \in {x \in DOMAIN bs : ~Expired(bs[x].t, time)} |-> bs[k]]

InitSweeper ==
    /\ swpc = "sleep"
    /\ swwake = now + BidCacheSweepPeriod
    /\ swbefore = <<>>
    /\ swtime = 0

\* A minute passes.  The scan of the map takes far less than a minute: the clock
\* does not move while the sweeper holds the guard.
Tick ==
    /\ now < MaxTime
    /\ swpc = "sleep"
    /\ now' = now + 1
    /\ UNCHANGED <<bids, bidsLock, relayCheck, nreq, hvars, pvars, svars, regvars, swvars>>

\* Lines 154-155: time.Sleep has returned; m.bidsLock.Lock()
SweeperLock ==
    /\ swpc = "sleep"
    /\ now >= swwake
    /\ bidsLock = "free"
    /\ bidsLock' = "sweeper"
    /\ swpc' = "sweep"
    /\ UNCHANGED <<swwake, swbefore, swtime>>
    /\ UNCHANGED <<bids, relayCheck, now, nreq, hvars, pvars, svars, regvars>>

\* Lines 156-160: the loop over m.bids
SweeperSweep ==
    /\ swpc = "sweep"
    /\ bidsLock = "sweeper"
    /\ bids' = Sweep(bids, now)
    /\ swbefore' = bids
    /\ swtime' = now
    /\ swpc' = "unlock"
    /\ UNCHANGED swwake
    /\ UNCHANGED <<bidsLock, relayCheck, now, nreq, hvars, pvars, svars, regvars>>

\* Lines 161, 154: m.bidsLock.Unlock(), and the next time.Sleep begins
SweeperUnlock ==
    /\ swpc = "unlock"
    /\ bidsLock = "sweeper"
    /\ bidsLock' = "free"
    /\ swpc' = "sleep"
    /\ swwake' = now + BidCacheSweepPeriod
    /\ swbefore' = <<>>
    /\ swtime' = 0
    /\ UNCHANGED <<bids, relayCheck, now, nreq, hvars, pvars, svars, regvars>>

(***************************************************************************)
(* Specifications.                                                         *)
(***************************************************************************)
InitHandlers == InitGetHeader /\ InitGetPayload /\ InitStatus /\ InitRegister /\ InitSweeper

\* The server after NewBoostService, configured without relay check.
Init == InitCache /\ relayCheck = FALSE /\ InitHandlers

\* The proposer's requests for headers and payloads, served one after the other.
Next ==
    \/ \E slot \in SlotStrings, parentHashHex \in ParentHashStrings, pubkey \in PubkeyStrings :
          ppc = "idle" /\ GetHeaderStart("A", slot, parentHashHex, pubkey)
    \/ \E r \in Relays : GetHeaderRelayResponse("A", r)
    \/ \E r \in Relays : GetHeaderLock("A", r)
    \/ \E r \in Relays : GetHeaderSelect("A", r)
    \/ GetHeaderWait("A")
    \/ GetHeaderBidsLock("A")
    \/ GetHeaderStore("A")
    \/ GetHeaderRespond("A")
    \/ GetHeaderReturn("A")
    \/ \E request \in PayloadRequests : hpc["A"] = "idle" /\ GetPayloadStart(request)
    \/ \E r \in Relays : \E answer \in PayloadAnswers(r) : GetPayloadRelayResponse(r, answer)
    \/ \E r \in Relays : GetPayloadLock(r)
    \/ \E r \in Relays : GetPayloadDeliver(r)
    \/ GetPayloadWait
    \/ GetPayloadBidsLock
    \/ GetPayloadWithheld
    \/ GetPayloadReturn

Spec == Init /\ [][Next]_vars

\* One auction.
NextAuction ==
    \/ \E slot \in SlotStrings, parentHashHex \in ParentHashStrings, pubkey \in PubkeyStrings :
          GetHeaderStart("A", slot, parentHashHex, pubkey)
    \/ \E r \in Relays : GetHeaderRelayResponse("A", r)
    \/ \E r \in Relays : GetHeaderLock("A", r)
    \/ \E r \in Relays : GetHeaderSelect("A", r)
    \/ GetHeaderWait("A")
    \/ GetHeaderBidsLock("A")
    \/ GetHeaderStore("A")
    \/ GetHeaderRespond("A")

SpecAuction == Init /\ [][NextAuction]_vars

\* One payload retrieval.
NextPayload ==
    \/ \E request \in PayloadRequests : GetPayloadStart(request)
    \/ \E r \in Relays : \E answer \in PayloadAnswers(r) : GetPayloadRelayResponse(r, answer)
    \/ \E r \in Relays : GetPayloadLock(r)
    \/ \E r \in Relays : GetPayloadDeliver(r)
    \/ GetPayloadWait
    \/ GetPayloadBidsLock
    \/ GetPayloadWithheld

SpecPayload == Init /\ [][NextPayload]_vars

\* One request, for a header or for a payload.
NextRequest ==
    \/ \E slot \in SlotStrings, parentHashHex \in ParentHashStrings, pubkey \in PubkeyStrings :
          ppc = "idle" /\ GetHeaderStart("A", slot, parentHashHex, pubkey)
    \/ \E r \in Relays : GetHeaderRelayResponse("A", r)
    \/ \E r \in Relays : GetHeaderLock("A", r)
    \/ \E r \in Relays : GetHeaderSelect("A", r)
    \/ GetHeaderWait("A")
    \/ GetHeaderBidsLock("A")
    \/ GetHeaderStore("A")
    \/ GetHeaderRespond("A")
    \/ \E request \in PayloadRequests : hpc["A"] = "idle" /\ GetPayloadStart(request)
    \/ \E r \in Relays : \E answer \in PayloadAnswers(r) : GetPayloadRelayResponse(r, answer)
    \/ \E r \in Relays : GetPayloadLock(r)
    \/ \E r \in Relays : GetPayloadDeliver(r)
    \/ GetPayloadWait
    \/ GetPayloadBidsLock
    \/ GetPayloadWithheld

SpecRequest == Init /\ [][NextRequest]_vars

\* A well-formed request of the proposer for a header.
ProposerSlots == {<<"4","2">>, MaxUint64Numeral}
ProposerParentHash == HashString("parentA")
ProposerPubkey == CHOOSE pubkey \in PubkeyStrings : Len(pubkey) = PubkeyHexLen

\* The bids a relay may answer a well-formed request with and that pass the
\* checks.
ProposerBids(r) == AcceptedAnswers[r, ProposerParentHash]

\* The record an auction leaves in the bid cache when the bid of relay r is its
\* only accepted bid, selected at time t.
AuctionRecord(r, responsePayload, t) ==
    LET blockHash == HashString(responsePayload.message.blockHash)
    IN  [SelectBid(NoBidResp, responsePayload, t) EXCEPT
            !.relays = RelaysOf(RecordRelay(<<>>, blockHash, RelayString(r)), blockHash)]

\* The bid caches that such auctions for one slot have left by the given time.
CachesAt(time) ==
    LET slot == ParseUint(<<"4","2">>).val
        records == UNION {{AuctionRecord(r, answer.payload, t) :
                              t \in 1..time,
                              answer \in {a \in ProposerBids(r) :
                                             a.payload.message.value = 1}} :
                          r \in Relays}
        keys == {BidRespKey(slot, HashString(b)) : b \in BlockHashes}
    IN  UNION {{f \in [K -> records] : \A k \in K : f[k].blockHash = k.blockHash} :
               K \in SUBSET keys}

\* The server some minutes after its start, with the bids of earlier auctions
\* in the cache, the sweeper asleep and no request under way.
InitSweeping ==
    /\ now \in 1..MaxTime
    /\ bids \in CachesAt(now)
    /\ bidsLock = "free"
    /\ nreq = MaxRequests
    /\ relayCheck = FALSE
    /\ InitHandlers

NextSweeper ==
    \/ Tick
    \/ SweeperLock
    \/ SweeperSweep
    \/ SweeperUnlock

\* The sweeper and the clock.  The goroutine of the sweeper runs whenever it
\* can, the guard is handed to it when it is free, and time passes.
SpecSweeper ==
    /\ InitSweeping
    /\ [][NextSweeper]_vars
    /\ WF_vars(Tick)
    /\ WF_vars(SweeperLock)
    /\ WF_vars(SweeperSweep)
    /\ WF_vars(SweeperUnlock)

\* The server a minute after its start, with the bids of earlier auctions in the
\* cache and room for one more request.
InitServing ==
    /\ now = 1
    /\ bids \in CachesAt(now)
    /\ bidsLock = "free"
    /\ nreq = MaxRequests - 1
    /\ relayCheck = TRUE
    /\ InitHandlers

NoRequestUnderWay ==
    /\ \A h \in HandlerIds : hpc[h] = "idle"
    /\ ppc = "idle"
    /\ spc = "idle"
    /\ regpc = "idle"

\* A request of any kind, while the clock runs and the sweeper sweeps.
NextServing ==
    \/ NoRequestUnderWay /\ GetHeaderStart("A", <<"4","2">>, ProposerParentHash, ProposerPubkey)
    \/ \E r \in Relays : GetHeaderRelayDrops("A", r, "error making request to relay")
    \/ \E r \in Relays : \E answer \in ProposerBids(r) : GetHeaderRelayDelivers("A", r, answer)
    \/ \E r \in Relays : GetHeaderLock("A", r)
    \/ \E r \in Relays : GetHeaderSelect("A", r)
    \/ GetHeaderWait("A")
    \/ GetHeaderBidsLock("A")
    \/ GetHeaderStore("A")
    \/ GetHeaderRespond("A")
    \/ \E request \in PayloadRequests : NoRequestUnderWay /\ GetPayloadStart(request)
    \/ \E r \in Relays : \E answer \in PayloadAnswers(r) : GetPayloadRelayResponse(r, answer)
    \/ \E r \in Relays : GetPayloadLock(r)
    \/ \E r \in Relays : GetPayloadDeliver(r)
    \/ GetPayloadWait
    \/ GetPayloadBidsLock
    \/ GetPayloadWithheld
    \/ NoRequestUnderWay /\ StatusStart
    \/ \E r \in Relays, err \in BOOLEAN : StatusRelayResponse(r, err)
    \/ \E r \in Relays : StatusCheck(r)
    \/ \E r \in Relays : StatusAdd(r)
    \/ \E r \in Relays : StatusCancel(r)
    \/ StatusWait
    \/ \E request \in RegisterRequests : NoRequestUnderWay /\ RegisterStart(request)
    \/ \E r \in Relays, err \in BOOLEAN : RegisterRelayResponse(r, err)
    \/ \E r \in Relays : RegisterPush(r)
    \/ RegisterReceive
    \/ Tick
    \/ SweeperLock
    \/ SweeperSweep
    \/ SweeperUnlock

SpecServing == InitServing /\ [][NextServing]_vars

\* The server at a time at which the sleep of the sweeper is over, with an
\* empty cache and no request under way.
InitServer ==
    /\ now = MaxTime
    /\ bids = <<>>
    /\ bidsLock = "free"
    /\ nreq = 0
    /\ relayCheck = TRUE
    /\ InitGetHeader /\ InitGetPayload /\ InitStatus /\ InitRegister
    /\ swpc = "sleep"
    /\ swwake = now
    /\ swbefore = <<>>
    /\ swtime = 0

\* the handlers that use the bid cache have no request under way
NoCacheRequestUnderWay == (\A h \in HandlerIds : hpc[h] = "idle") /\ ppc = "idle"

\* the handlers that do not use the bid cache have no request under way
NoOtherRequestUnderWay == spc = "idle" /\ regpc = "idle"

\* The bids and payloads the relays answer with while requests are served at the
\* same time: bids of value 1 for either block, and the payloads of either block.
ServerBids(r) == {answer \in ProposerBids(r) : answer.payload.message.value = 1}
ServerPayloadRequests == {request \in PayloadRequests : request.slot = <<"4","2">>}

\* the steps of the instance h of handleGetHeader on a well-formed request
GetHeaderStep(h) ==
    \/ \E slot \in ProposerSlots :
          /\ NoOtherRequestUnderWay
          /\ h = "A" => slot = <<"4","2">>
          /\ GetHeaderStart(h, slot, ProposerParentHash, ProposerPubkey)
    \/ \E r \in Relays : GetHeaderRelayDrops(h, r, "error making request to relay")
    \/ \E r \in Relays : \E answer \in ServerBids(r) : GetHeaderRelayDelivers(h, r, answer)
    \/ \E r \in Relays : GetHeaderLock(h, r)
    \/ \E r \in Relays : GetHeaderSelect(h, r)
    \/ GetHeaderWait(h)
    \/ GetHeaderBidsLock(h)
    \/ GetHeaderStore(h)
    \/ GetHeaderRespond(h)

GetPayloadStep ==
    \/ \E request \in ServerPayloadRequests : NoOtherRequestUnderWay /\ GetPayloadStart(request)
    \/ \E r \in Relays : \E answer \in PayloadAnswers(r) : GetPayloadRelayResponse(r, answer)
    \/ \E r \in Relays : GetPayloadLock(r)
    \/ \E r \in Relays : GetPayloadDeliver(r)
    \/ GetPayloadWait
    \/ GetPayloadBidsLock
    \/ GetPayloadWithheld

StatusStep ==
    \/ (NoCacheRequestUnderWay /\ regpc = "idle") /\ StatusStart
    \/ \E r \in Relays, err \in BOOLEAN : StatusRelayResponse(r, err)
    \/ \E r \in Relays : StatusCheck(r)
    \/ \E r \in Relays : StatusAdd(r)
    \/ \E r \in Relays : StatusCancel(r)
    \/ StatusWait

RegisterStep ==
    \/ \E request \in RegisterRequests :
          (NoCacheRequestUnderWay /\ spc = "idle") /\ RegisterStart(request)
    \/ \E r \in Relays, err \in BOOLEAN : RegisterRelayResponse(r, err)
    \/ \E r \in Relays : RegisterPush(r)
    \/ RegisterReceive

\* The server: requests for headers and for payloads served at the same time,
\* status checks and registrations, and the sweeper.
NextServer ==
    \/ \E h \in HandlerIds : GetHeaderStep(h)
    \/ GetPayloadStep
    \/ StatusStep
    \/ RegisterStep
    \/ SweeperLock
    \/ SweeperSweep
    \/ SweeperUnlock

SpecServer == InitServer /\ [][NextServer]_vars

\* One request for a header and one for a payload served at the same time as
\* the sweeper runs, and status checks and registrations, with what the runtime
\* gives the server: each goroutine that can take a step takes one, and every
\* call to a relay returns (the HTTP client has a timeout).
ContentionPayloadRequests ==
    {request \in ServerPayloadRequests : request.blockHash = "hashA"}

ContentionPayloadAnswers(r) ==
    {answer \in PayloadAnswers(r) : answer.err \/ answer.payload.blockHash \in BlockHashes}

ContentionRegisterRequests ==
    {request \in RegisterRequests : request.decodable /\ request.body = "registrationsA"}

NextContention ==
    \/ NoOtherRequestUnderWay
          /\ GetHeaderStart("A", <<"4","2">>, ProposerParentHash, ProposerPubkey)
    \/ \E r \in Relays : GetHeaderRelayDrops("A", r, "error making request to relay")
    \/ \E r \in Relays : \E answer \in ServerBids(r) : GetHeaderRelayDelivers("A", r, answer)
    \/ \E r \in Relays : GetHeaderLock("A", r)
    \/ \E r \in Relays : GetHeaderSelect("A", r)
    \/ GetHeaderWait("A")
    \/ GetHeaderBidsLock("A")
    \/ GetHeaderStore("A")
    \/ GetHeaderRespond("A")
    \/ \E request \in ContentionPayloadRequests :
          NoOtherRequestUnderWay /\ GetPayloadStart(request)
    \/ \E r \in Relays : \E answer \in ContentionPayloadAnswers(r) : GetPayloadRelayResponse(r, answer)
    \/ \E r \in Relays : GetPayloadLock(r)
    \/ \E r \in Relays : GetPayloadDeliver(r)
    \/ GetPayloadWait
    \/ GetPayloadBidsLock
    \/ GetPayloadWithheld
    \/ (NoCacheRequestUnderWay /\ regpc = "idle") /\ StatusStart
    \/ \E r \in Relays, err \in BOOLEAN : StatusRelayResponse(r, err)
    \/ \E r \in Relays : StatusCheck(r)
    \/ \E r \in Relays : StatusAdd(r)
    \/ \E r \in Relays : StatusCancel(r)
    \/ StatusWait
    \/ \E request \in ContentionRegisterRequests :
          (NoCacheRequestUnderWay /\ spc = "idle") /\ RegisterStart(request)
    \/ \E r \in Relays, err \in BOOLEAN : RegisterRelayResponse(r, err)
    \/ \E r \in Relays : RegisterPush(r)
    \/ RegisterReceive
    \/ SweeperLock
    \/ SweeperSweep
    \/ SweeperUnlock

HeaderHandlerThread(h) ==
    GetHeaderWait(h) \/ GetHeaderBidsLock(h) \/ GetHeaderStore(h) \/ GetHeaderRespond(h)

HeaderGoroutine(h, r) ==
    \/ GetHeaderRelayDrops(h, r, "error making request to relay")
    \/ \E answer \in ServerBids(r) : GetHeaderRelayDelivers(h, r, answer)
    \/ GetHeaderLock(h, r)
    \/ GetHeaderSelect(h, r)

PayloadHandlerThread == GetPayloadWait \/ GetPayloadBidsLock \/ GetPayloadWithheld

PayloadGoroutine(r) ==
    \/ \E answer \in ContentionPayloadAnswers(r) : GetPayloadRelayResponse(r, answer)
    \/ GetPayloadLock(r)
    \/ GetPayloadDeliver(r)

StatusGoroutine(r) ==
    \/ \E err \in BOOLEAN : StatusRelayResponse(r, err)
    \/ StatusCheck(r)
    \/ StatusAdd(r)
    \/ StatusCancel(r)

RegisterGoroutine(r) ==
    (\E err \in BOOLEAN : RegisterRelayResponse(r, err)) \/ RegisterPush(r)

SweeperGoroutine == SweeperLock \/ SweeperSweep \/ SweeperUnlock

FairContention ==
    /\ WF_vars(HeaderHandlerThread("A"))
    /\ \A r \in Relays : WF_vars(HeaderGoroutine("A", r))
    /\ WF_vars(PayloadHandlerThread)
    /\ \A r \in Relays : WF_vars(PayloadGoroutine(r))
    /\ WF_vars(StatusWait)
    /\ \A r \in Relays : WF_vars(StatusGoroutine(r))
    /\ WF_vars(RegisterReceive)
    /\ \A r \in Relays : WF_vars(RegisterGoroutine(r))
    /\ WF_vars(SweeperGoroutine)

SpecContention == InitServer /\ [][NextContention]_vars /\ FairContention

\* Status checks, one after the other, with and without relay check.
InitStatusServer == InitCache /\ relayCheck \in BOOLEAN /\ InitHandlers
SpecStatus == InitStatusServer /\ [][NextStatus]_vars

\* Validator registrations, one after the other.
SpecRegister == Init /\ [][NextRegister]_vars

\* Validator registrations with the scheduling the runtime gives: every relay
\* call returns (the HTTP client has a timeout), and a goroutine that can send on
\* the channel, and the handler that can receive from it, do so.
FairRegister ==
    /\ \A r \in Relays : WF_vars(\E err \in BOOLEAN : RegisterRelayResponse(r, err))
    /\ \A r \in Relays : WF_vars(RegisterPush(r))
    /\ WF_vars(RegisterReceive)

SpecRegisterFair == SpecRegister /\ FairRegister

(***************************************************************************)
(* Properties of the auction (handleGetHeader).                            *)
(***************************************************************************)
TheHandler == "A"

\* the auction of the handler is over and the reply is written
AuctionReplied == hpc[TheHandler] = "done" /\ GetHeaderArgsError(hreq[TheHandler].slot,
                    hreq[TheHandler].parentHashHex, hreq[TheHandler].pubkey) = ""

AcceptedBids == haccepted[TheHandler]
BidValue(i) == AcceptedBids[i].payload.message.value
BidHash(i) == HashString(AcceptedBids[i].payload.message.blockHash)

\* C1: when an auction with at least one accepted bid replies, the reply is 200
\* with an accepted bid that no accepted bid outbids, and among the accepted bids
\* of that highest value it is the one that entered the critical section first.
C1_BestBidReturned ==
    (AuctionReplied /\ AcceptedBids # <<>>) =>
        /\ hreply[TheHandler].code = 200
        /\ \E i \in 1..Len(AcceptedBids) :
              /\ hreply[TheHandler].body = AcceptedBids[i].payload
              /\ \A j \in 1..Len(AcceptedBids) : BidValue(j) <= BidValue(i)
              /\ \A j \in 1..(i - 1) : BidValue(j) < BidValue(i)

\* a replied auction in which the second bid to arrive ties with the first
C1_Witness ==
    /\ AuctionReplied
    /\ Len(AcceptedBids) = 2
    /\ BidValue(1) = BidValue(2)
    /\ BidHash(1) # BidHash(2)
    /\ hreply[TheHandler].body = AcceptedBids[1].payload

\* the bid is what the checks demand of relay r for a request with this parent hash
BidIsValid(r, payload, parentHashHex) ==
    /\ payload.data = "ok"
    /\ payload.message.blockHash # nilHash
    /\ payload.message.pubkey = RelayPublicKey(r)
    /\ ~payload.signature.malformed
    /\ payload.signature.signer = RelayPublicKey(r)
    /\ payload.signature.domain = builderSigningDomain
    /\ payload.signature.msg = payload.message
    /\ HashString(payload.message.parentHash) = parentHashHex

\* C2: every response in the shared selection state of an auction (taken into the
\* critical section, recorded in the relays map, held as the best bid or replied)
\* has a non-zero block hash, its relay's public key, a signature of that relay
\* over the message under the builder domain, and the request's parent hash.
C2_OnlyValidBidsSelected ==
    LET h == TheHandler
    IN  /\ \A i \in 1..Len(AcceptedBids) :
              BidIsValid(AcceptedBids[i].relay, AcceptedBids[i].payload, hreq[h].parentHashHex)
        /\ \A r \in Relays :
              htask[h][r].pc \in {"lock", "crit"} =>
                  BidIsValid(r, htask[h][r].responsePayload, hreq[h].parentHashHex)
        /\ hresult[h].response.data # "nil" =>
              \E r \in Relays : BidIsValid(r, hresult[h].response, hreq[h].parentHashHex)
        /\ hreply[h].code = 200 =>
              \E r \in Relays : BidIsValid(r, hreply[h].body, hreq[h].parentHashHex)
        /\ \A b \in DOMAIN hrelays[h] : \A k \in 1..Len(hrelays[h][b]) :
              \E i \in 1..Len(AcceptedBids) :
                  /\ RelayString(AcceptedBids[i].relay) = hrelays[h][b][k]
                  /\ BidHash(i) = b

\* an auction that dropped a bid for its signature and replied another relay's bid
C2_Witness ==
    /\ AuctionReplied
    /\ hreply[TheHandler].code = 200
    /\ \E r \in Relays : htask[TheHandler][r].log = "failed to verify relay signature"

\* the number of times x occurs in sequence s
Occurrences(x, s) == Cardinality({k \in 1..Len(s) : s[k] = x})

C7_EmptyAuctionLeavesCache ==
    (AuctionReplied /\ AcceptedBids = <<>>) =>
        /\ hreply[TheHandler] = [NoReply EXCEPT !.code = 204]
        /\ bids = hbidsBefore[TheHandler]

\* an empty auction (a 204 and a pubkey mismatch) with a bid cache that is not empty
C7_Witness ==
    /\ AuctionReplied
    /\ AcceptedBids = <<>>
    /\ bids # <<>>
    /\ \E r \in Relays : htask[TheHandler][r].log = "no-content response"
    /\ \E r \in Relays : htask[TheHandler][r].log = "bid pubkey mismatch"

RequestRejected(message) ==
    /\ hreply[TheHandler].code = 400
    /\ hreply[TheHandler].message = message

\* C10 as stated, the checks read in the order it lists them (slot, parent_hash,
\* pubkey): a slot that does not parse is answered invalid slot, else a parent
\* hash of the wrong length invalid hash, else a pubkey of the wrong length
\* invalid pubkey.
C10_EachCheckHasItsError ==
    hpc[TheHandler] = "done" =>
        LET badSlot == ParseUint(hreq[TheHandler].slot).err # "nil"
            badHash == Len(hreq[TheHandler].parentHashHex) # 66
            badPubkey == Len(hreq[TheHandler].pubkey) # 98
        IN  /\ badSlot => RequestRejected("invalid slot")
            /\ (~badSlot /\ badHash) => RequestRejected("invalid hash")
            /\ (~badSlot /\ ~badHash /\ badPubkey) => RequestRejected("invalid pubkey")

\* C10, amended: the checks are made in the order slot, pubkey, parent_hash and the
\* first that fails decides the error of the 400; a request that fails one is
\* answered with no relay goroutine started and the bid cache unchanged.
C10_FirstFailedCheckDecides ==
    hpc[TheHandler] = "done" =>
        LET badSlot == ParseUint(hreq[TheHandler].slot).err # "nil"
            badHash == Len(hreq[TheHandler].parentHashHex) # 66
            badPubkey == Len(hreq[TheHandler].pubkey) # 98
        IN  /\ badSlot => RequestRejected("invalid slot")
            /\ (~badSlot /\ badPubkey) => RequestRejected("invalid pubkey")
            /\ (~badSlot /\ ~badPubkey /\ badHash) => RequestRejected("invalid hash")
            /\ (badSlot \/ badPubkey \/ badHash) =>
                  /\ \A r \in Relays : htask[TheHandler][r].pc = "none"
                  /\ haccepted[TheHandler] = <<>>
                  /\ bids = hbidsBefore[TheHandler]
            /\ (~badSlot /\ ~badPubkey /\ ~badHash) => hreply[TheHandler].code # 400

\* a request with a good slot, a short pubkey and a short parent hash, rejected
\* while the bid cache holds an entry
C10_Witness ==
    /\ hpc[TheHandler] = "done"
    /\ RequestRejected("invalid pubkey")
    /\ Len(hreq[TheHandler].parentHashHex) = 65
    /\ Len(hreq[TheHandler].pubkey) = 97
    /\ bids # <<>>

(***************************************************************************)
(* Properties of the payload retrieval (handleGetPayload).                 *)
(***************************************************************************)
\* C3: a getPayload reply of 200 carries a payload whose block hash is not the
\* zero hash and is the block hash of the request's execution payload header.
C3_PayloadMatchesRequest ==
    preply.code = 200 =>
        /\ preply.body.data = "ok"
        /\ preply.body.blockHash # nilHash
        /\ preply.body.blockHash = preq.blockHash

\* a 200 although one relay answered with the payload of another block
C3_Witness ==
    /\ preply.code = 200
    /\ \E r \in Relays : ptask[r].log = "requestBlockHash does not equal responseBlockHash"

\* C4: the result of a payload retrieval is written at most once, by the first
\* goroutine to take mu with a validated response; that goroutine cancels the
\* context, every later one leaves the result as it is, and the payload replied
\* is the one of the first.
C4_FirstWinnerOnly ==
    /\ Len(pwriters) <= 1
    /\ pwriters # <<>> => pwriters[1] = pentered[1]
    /\ (pentered # <<>> /\ ptask[pentered[1]].pc = "done") =>
          /\ pwriters = <<pentered[1]>>
          /\ pctx
          /\ presult.data = "ok"
          /\ presult.body = RelayString(pentered[1])
    /\ pwriters = <<>> => (presult = NoPayloadResponse /\ ~pctx)
    /\ \A k \in 2..Len(pentered) :
          ptask[pentered[k]].pc = "done" => ptask[pentered[k]].log = "request cancelled"
    /\ preply.code = 200 =>
          (pentered # <<>> /\ preply.body.body = RelayString(pentered[1]))

\* both relays delivered a validated payload, the second to take mu is not the
\* relay listed first, and the reply is made
C4_Witness ==
    /\ preply.code = 200
    /\ Len(pentered) = 2
    /\ pentered[1] = 2
    /\ \A r \in Relays : ptask[r].pc = "done"

\* C6: when a payload retrieval ends with no goroutine holding a validated
\* response, the reply is 502 and the relays logged are those of the bid cache
\* record under (slot, block hash) of the request, none when there is no record.
C6_WithholdingNamesCachedRelays ==
    (ppc = "done" /\ preq.decodable /\ pentered = <<>>) =>
        LET key == [slot |-> preq.slot, blockHash |-> HashString(preq.blockHash)]
        IN  /\ preply.code = 502
            /\ preply.message = "no successful relay response"
            /\ plogged = IF key \in DOMAIN bids THEN bids[key].relays ELSE <<>>

\* a withheld payload whose bid is in the cache, next to a request for another
\* slot that is not
C6_Witness ==
    /\ ppc = "done"
    /\ preq.decodable
    /\ pentered = <<>>
    /\ preply.code = 502
    /\ plogged # <<>>

(***************************************************************************)
(* Properties of the status check (handleStatus).                          *)
(***************************************************************************)
\* C8: with relay check on, the status handler replies 200 when the status request
\* of at least one relay returned without error, and 503 when none did.
C8_StatusOkIffSomeRelaySucceeded ==
    (relayCheck /\ spc = "done") =>
        IF \E r \in Relays : ~stask[r].err
        THEN sreply.code = 200
        ELSE sreply.code = 503 /\ sreply.message = "all relays are unavailable"

\* a failed request was counted as a success because the context was cancelled by
\* then: the counter exceeds the number of relays that succeeded
C8_Witness ==
    /\ relayCheck
    /\ spc = "done"
    /\ sreply.code = 200
    /\ scount > Cardinality({r \in Relays : ~stask[r].err})

(***************************************************************************)
(* Properties of the validator registration (handleRegisterValidator).     *)
(***************************************************************************)
RegisterCallOver ==
    /\ regpc = "done"
    /\ regreq.decodable
    /\ \A r \in Relays : regtask[r].pc = "done"

\* C9: a registration with a decodable body is answered 200 when a relay goroutine
\* reports no error and 502 when all of them report one; a reply of 200 rests on
\* a relay that reported no error and one of 502 on all having reported one; a
\* call with the body and the relay outcomes of the call before it gets that
\* call's verdict.
C9_RegisterVerdict ==
    /\ (regpc = "done" /\ regreq.decodable) =>
          /\ regreply.code \in {200, 502}
          /\ regreply.code = 200 =>
                \E r \in Relays : regtask[r].pc \in {"push", "done"} /\ ~regtask[r].err
          /\ regreply.code = 502 =>
                \A r \in Relays : regtask[r].pc = "done" /\ regtask[r].err
    /\ RegisterCallOver =>
          /\ regreply.code = 200 <=> \E r \in Relays : ~regtask[r].err
          /\ regreply.code = 502 <=> \A r \in Relays : regtask[r].err
          /\ (regprev.body = regreq.body /\ regprev.errs = [r \in Relays |-> regtask[r].err])
                => regprev.code = regreply.code

\* a second call with the body and the outcomes of the first, answered 200 after
\* an error was received first
C9_Witness ==
    /\ RegisterCallOver
    /\ regprev.body = regreq.body
    /\ regprev.errs = [r \in Relays |-> regtask[r].err]
    /\ regreply.code = 200
    /\ regi >= 1

(***************************************************************************)
(* Properties of the waiting for the relay goroutines.                     *)
(***************************************************************************)
\* C11: in getHeader and in getPayload, once the handler is past wg.Wait (it holds
\* or has stored the best bid, looks up the withheld bid, or has replied), every
\* relay goroutine of the request has ended; a reply to a request that passed
\* the argument checks finds all of them ended.
C11_ReplyAfterAllTasks ==
    LET h == TheHandler
    IN  /\ (hreply[h].code # 0 \/ hpc[h] \in {"bidsLock", "store", "respond", "done"}) =>
              \A r \in Relays : htask[h][r].pc \in {"none", "done"}
        /\ hreply[h].code \in {200, 204} => \A r \in Relays : htask[h][r].pc = "done"
        /\ (preply.code # 0 \/ ppc \in {"bidsLock", "lookup", "done"}) =>
              \A r \in Relays : ptask[r].pc \in {"none", "done"}
        /\ preply.code \in {200, 502} => \A r \in Relays : ptask[r].pc = "done"

\* a payload replied after a goroutine that came to mu behind the winner, with
\* the context cancelled, had ended too
C11_Witness ==
    /\ preply.code = 200
    /\ pctx
    /\ \E r \in Relays : ptask[r].log = "request cancelled"
    /\ \E r \in Relays : ptask[r].log = "received payload from relay"

(***************************************************************************)
(* Properties of the bids without value.                                   *)
(***************************************************************************)
\* the bid offers nothing: its value is 0 or its block has no transactions
IsEmptyBid(payload) ==
    \/ payload.message.value = 0
    \/ payload.message.transactionsRoot = "rootEmptyList"

\* every answer that passes all other checks with a bid that offers nothing is
\* dropped, with the log line of the bids without value
EmptyBidsAreDropped ==
    \A r \in Relays, answer \in HeaderAnswers :
        LET parentHashHex == HashString(answer.payload.message.parentHash)
        IN  (/\ ~answer.err
             /\ answer.code = 200
             /\ BidIsValid(r, answer.payload, parentHashHex)
             /\ IsEmptyBid(answer.payload)) =>
                GetHeaderDropReason(r, answer, parentHashHex) = "ignoring bid with 0 value"

\* C12: a bid of value 0 or with the transactions root of the empty list is
\* dropped although it passes every other check: no such bid is taken into the
\* critical section, recorded in the relays map or held as the best bid, and an
\* auction in which every relay's bid was dropped for this ends with 204 and the
\* bid cache as it was.
C12_EmptyBidsDropped ==
    LET h == TheHandler
    IN  /\ EmptyBidsAreDropped
        /\ \A i \in 1..Len(AcceptedBids) : ~IsEmptyBid(AcceptedBids[i].payload)
        /\ \A r \in Relays :
              htask[h][r].pc \in {"lock", "crit"} => ~IsEmptyBid(htask[h][r].responsePayload)
        /\ hresult[h].response.data # "nil" => ~IsEmptyBid(hresult[h].response)
        /\ \A b \in DOMAIN hrelays[h] : \A k \in 1..Len(hrelays[h][b]) :
              \E i \in 1..Len(AcceptedBids) :
                  /\ RelayString(AcceptedBids[i].relay) = hrelays[h][b][k]
                  /\ BidHash(i) = b
                  /\ ~IsEmptyBid(AcceptedBids[i].payload)
        /\ (/\ AuctionReplied
             /\ \A r \in Relays : htask[h][r].log = "ignoring bid with 0 value") =>
                /\ hreply[h] = [NoReply EXCEPT !.code = 204]
                /\ hrelays[h] = <<>>
                /\ bids = hbidsBefore[h]
                /\ bids = <<>>

\* an auction in which both relays sent bids that were dropped for their value or
\* their transactions root has replied
C12_Witness ==
    /\ AuctionReplied
    /\ hreply[TheHandler].code = 204
    /\ \A r \in Relays : htask[TheHandler][r].log = "ignoring bid with 0 value"

(***************************************************************************)
(* Properties of the failures of single relays.                            *)
(***************************************************************************)
\* the log lines of a bid rejected for what it says
RejectedBidLogs ==
    {"bid pubkey mismatch", "error verifying relay signature",
     "failed to verify relay signature",
     "proposer and relay parent hashes are not the same"}

\* the log lines of a payload answer that is dropped
DroppedPayloadLogs ==
    {"error making request to relay", "response with empty data!",
     "requestBlockHash does not equal responseBlockHash"}

\* C13: a relay's failure stays in its goroutine.  An auction with an accepted
\* bid replies 200 with an accepted bid whatever the other relays sent, and the
\* rejected bids are in neither the relays map nor the result.  In a payload
\* retrieval the context is cancelled only by a goroutine that wrote a validated
\* payload, and a retrieval in which a relay's answer passed the checks replies
\* 200 with a payload, not 502.
C13_FailuresStayLocal ==
    LET h == TheHandler
    IN  /\ (AuctionReplied /\ AcceptedBids # <<>>) =>
              /\ hreply[h].code = 200
              /\ \E i \in 1..Len(AcceptedBids) : hreply[h].body = AcceptedBids[i].payload
        /\ \A r \in Relays :
              htask[h][r].log \in RejectedBidLogs =>
                  /\ \A i \in 1..Len(AcceptedBids) : AcceptedBids[i].relay # r
                  /\ \A b \in DOMAIN hrelays[h] : \A k \in 1..Len(hrelays[h][b]) :
                        hrelays[h][b][k] # RelayString(r)
        /\ hreply[h].code \in {0, 200, 204, 400}
        /\ hreply[h].code = 400 => \A r \in Relays : htask[h][r].pc = "none"
        /\ pctx => pwriters # <<>>
        /\ (\A r \in Relays : ptask[r].log \in DroppedPayloadLogs) => (~pctx /\ presult = NoPayloadResponse)
        /\ (ppc = "done" /\ pentered # <<>>) =>
              /\ preply.code = 200
              /\ preply.body.data = "ok"
              /\ preply.body.blockHash = preq.blockHash
        /\ preply.code = 502 => pentered = <<>>

\* the auction replied the bid of one relay although the other relay's bid, which
\* may have been of a higher value, was rejected for its signature
C13_Witness ==
    LET h == TheHandler
    IN  /\ AuctionReplied
        /\ hreply[h].code = 200
        /\ hreply[h].body.message.value < MaxValue
        /\ \E r \in Relays :
              /\ htask[h][r].log = "failed to verify relay signature"
              /\ \E answer \in HeaderAnswers :
                    /\ answer.payload.message.value > hreply[h].body.message.value
                    /\ GetHeaderDropReason(r, answer, hreq[h].parentHashHex) = htask[h][r].log

(***************************************************************************)
(* Properties of the fan-out of the validator registration.                *)
(***************************************************************************)
\* every relay has a goroutine of the call, and a goroutine at the channel send
\* can send
RegisterFanOut ==
    /\ (regpc \in {"recv", "done"} /\ regreq.decodable) =>
          \A r \in Relays : regtask[r].pc \in {"send", "push", "done"}
    /\ \A r \in Relays : regtask[r].pc = "push" => ENABLED RegisterPush(r)
    /\ Len(regch) <= NumRelays

\* a relay call that is under way stays under way until it returns by itself,
\* whatever the other relays answered and whatever the handler replied
RegisterCallKept ==
    \A r \in Relays :
        regtask[r].pc = "send" => regtask'[r].pc \in {"send", "push"}

\* C14: every call with a decodable body starts a request to every relay; no
\* request is taken back when another relay succeeds or the handler replies; a
\* goroutine never finds the channel full, and each one started delivers its
\* result and ends, also after the reply.
C14_EveryRelayRegistered ==
    /\ []RegisterFanOut
    /\ [][RegisterCallKept]_vars
    /\ \A r \in Relays : (regtask[r].pc \in {"send", "push"}) ~> (regtask[r].pc = "done")

\* the handler replied 200 on the first result and all goroutines have ended: the
\* other result, an error, lies in the channel unread
C14_Witness ==
    /\ regpc = "done"
    /\ regreply.code = 200
    /\ regi = 0
    /\ \A r \in Relays : regtask[r].pc = "done"
    /\ regch # <<>>
    /\ Head(regch) = TRUE

(***************************************************************************)
(* Properties of the auction's outcome across arrival orders.              *)
(***************************************************************************)
\* accepted bid i outbids every other accepted bid
StrictlyHighest(i) ==
    \A j \in 1..Len(AcceptedBids) : j # i => BidValue(j) < BidValue(i)

\* C15: when one accepted bid of an auction outbids all the others, the reply is
\* that bid and the bid cache holds it under its block hash, wherever it stands
\* in the order in which the goroutines went through the critical section; the
\* reply depends on that order only when the highest value is shared.
C15_UniqueBestWinsInAnyOrder ==
    AuctionReplied =>
        \A i \in 1..Len(AcceptedBids) :
            StrictlyHighest(i) =>
                LET key == [slot |-> ParseUint(hreq[TheHandler].slot).val, blockHash |-> BidHash(i)]
                IN  /\ hreply[TheHandler].code = 200
                    /\ hreply[TheHandler].body = AcceptedBids[i].payload
                    /\ hresult[TheHandler].blockHash = BidHash(i)
                    /\ DOMAIN bids = {key}
                    /\ bids[key].response = AcceptedBids[i].payload

\* the bid of the relay listed first outbids the other and went through the
\* critical section after it
C15_Witness ==
    /\ AuctionReplied
    /\ Len(AcceptedBids) = 2
    /\ AcceptedBids[1].relay = 2
    /\ BidValue(2) > BidValue(1)
    /\ BidHash(2) # BidHash(1)
    /\ hreply[TheHandler].body = AcceptedBids[2].payload

(***************************************************************************)
(* Properties of the sweeper of the bid cache.                             *)
(***************************************************************************)
\* the age of a record at the given time, in minutes
Age(rec, time) == time - rec.t

\* some record of the cache bears the time stamp t
HoldsRecordOf(t) == \E k \in DOMAIN bids : bids[k].t = t

\* the cache right after the loop of a sweep, the guard still held
JustSwept ==
    swpc = "unlock" =>
        /\ swtime = now
        /\ \A k \in DOMAIN bids : Age(bids[k], now) <= BidCacheMaxAge
        /\ DOMAIN bids \subseteq DOMAIN swbefore
        /\ \A k \in DOMAIN swbefore :
              IF Age(swbefore[k], now) <= BidCacheMaxAge
              THEN k \in DOMAIN bids /\ bids[k] = swbefore[k]
              ELSE k \notin DOMAIN bids

\* a sweep begins no sooner than a minute after the one before ended
SweepsAMinuteApart == swpc # "sleep" => now >= swwake

\* C16: right after each sweep the cache holds no record older than 3 minutes and
\* holds every record of the cache before the sweep that is at most 3 minutes
\* old, unchanged; the sweeper sleeps a minute between sweeps and sweeps again
\* whenever that minute has passed, so that every record in the cache is gone
\* from it at some later time (within the hours the clock of the model covers).
C16_SweeperEvictsOldBids ==
    /\ [](JustSwept /\ SweepsAMinuteApart)
    /\ (swpc = "sleep" /\ swwake <= MaxTime) ~> (swpc = "unlock")
    /\ \A t \in 1..(MaxTime - BidCacheMaxAge - 1) :
          (HoldsRecordOf(t) /\ now < MaxTime) ~> ~HoldsRecordOf(t)

\* a sweep has just deleted a record older than 3 minutes and kept one that is
\* exactly 3 minutes old
C16_Witness ==
    /\ swpc = "unlock"
    /\ \E k \in DOMAIN swbefore : Age(swbefore[k], now) > BidCacheMaxAge /\ k \notin DOMAIN bids
    /\ \E k \in DOMAIN bids : Age(bids[k], now) = BidCacheMaxAge

(***************************************************************************)
(* Properties of the changes to the bid cache.                             *)
(***************************************************************************)
\* the step is the store of a getHeader auction that is complete and has a valid
\* bid, and the record under key k after it is the auction's result
StoredByAuction(k) ==
    \E h \in HandlerIds :
        /\ hpc[h] = "store"
        /\ hpc'[h] = "respond"
        /\ bidsLock = h
        /\ \A r \in Relays : htask[h][r].pc = "done"
        /\ haccepted[h] # <<>>
        /\ hresult[h].relays # <<>>
        /\ k = BidRespKey(ParseUint(hreq[h].slot).val, hresult[h].blockHash)
        /\ bids'[k] = hresult[h]

\* the step is the loop of the sweeper
SweptBySweeper == swpc = "sweep" /\ swpc' = "unlock" /\ bidsLock = "sweeper"

\* the step belongs to the status, registerValidator or getPayload handler
OtherHandlerStep == svars' # svars \/ regvars' # regvars \/ pvars' # pvars

\* C17 as stated: a key comes into the cache only by the store of a complete
\* auction with a valid bid, the record under a key is never changed while the
\* key is in the cache, a key leaves the cache only in a sweep, and the steps of
\* the status, registerValidator and getPayload handlers leave the cache as it is.
C17_RecordsNeverChange ==
    [][/\ \A k \in DOMAIN bids' \ DOMAIN bids : StoredByAuction(k)
       /\ \A k \in DOMAIN bids \cap DOMAIN bids' : bids'[k] = bids[k]
       /\ DOMAIN bids \ DOMAIN bids' # {} => SweptBySweeper
       /\ OtherHandlerStep => bids' = bids]_vars

\* C17, amended: the record under a key changes only by the store of a complete
\* auction with a valid bid for that key, which puts its own result in the place
\* of the record; the rest as stated.
C17_RecordsChangeOnlyByStore ==
    [][/\ \A k \in DOMAIN bids' \ DOMAIN bids : StoredByAuction(k)
       /\ \A k \in DOMAIN bids \cap DOMAIN bids' : bids'[k] # bids[k] => StoredByAuction(k)
       /\ DOMAIN bids \ DOMAIN bids' # {} => SweptBySweeper
       /\ OtherHandlerStep => bids' = bids]_vars

\* an auction has stored its result under the key of a record of an earlier
\* auction, which it replaced by a different one
C17_Witness ==
    LET h == TheHandler
        key == BidRespKey(ParseUint(hreq[h].slot).val, hresult[h].blockHash)
    IN  /\ hpc[h] = "respond"
        /\ key \in DOMAIN hbidsBefore[h]
        /\ key \in DOMAIN bids
        /\ bids[key] = hresult[h]
        /\ bids[key] # hbidsBefore[h][key]

(***************************************************************************)
(* Properties of the guard of the bid cache.                               *)
(***************************************************************************)
\* those that are at an access to m.bids: a handler at its store, the payload
\* handler at its lookup, the sweeper in its scan
CacheUsers ==
    {h \in HandlerIds : hpc[h] = "store"}
        \cup (IF ppc = "lookup" THEN {"getPayload"} ELSE {})
        \cup (IF swpc \in {"sweep", "unlock"} THEN {"sweeper"} ELSE {})

\* at most one is at an access to the map, and it holds the guard
OneCacheUser ==
    /\ Cardinality(CacheUsers) <= 1
    /\ \A u \in CacheUsers : bidsLock = u
    /\ bidsLock # "free" => bidsLock \in CacheUsers

\* the map is written and read only by the holder of the guard, and between the
\* sweeper's Lock and Unlock only the sweeper's loop changes it
GuardedAccess ==
    /\ bids' # bids =>
          \/ \E h \in HandlerIds : bidsLock = h /\ hpc[h] = "store" /\ hpc'[h] = "respond"
          \/ bidsLock = "sweeper" /\ SweptBySweeper
    /\ plogged' # plogged => (bidsLock = "getPayload" /\ ppc = "lookup")
    /\ (bidsLock = "sweeper" /\ bidsLock' = "sweeper") => bids' = Sweep(bids, now)
    /\ (bidsLock = "sweeper" /\ bidsLock' # "sweeper") => (bids' = bids /\ bidsLock' = "free")

\* C18: the store of a getHeader auction, the lookup of getPayload and the scan of
\* the sweeper are made holding bidsLock: with requests served at the same time
\* and the sweeper running, at most one of them is at the map at any time, and
\* nothing but the sweeper's loop changes the map between the sweeper's Lock and
\* Unlock.
C18_CacheAccessUnderGuard == []OneCacheUser /\ [][GuardedAccess]_vars

\* the sweeper is in its scan while two getHeader handlers wait for the guard
\* with their results
C18_Witness ==
    /\ swpc = "sweep"
    /\ bidsLock = "sweeper"
    /\ \A h \in HandlerIds : hpc[h] = "bidsLock"

(***************************************************************************)
(* Properties of the records of the bid cache.                             *)
(***************************************************************************)
\* the record under key k is of one piece
SelfConsistent(k, rec) ==
    /\ rec.response.data = "ok"
    /\ rec.blockHash = k.blockHash
    /\ HashString(rec.response.message.blockHash) = k.blockHash
    /\ rec.relays # <<>>
    /\ \E r \in Relays :
          /\ rec.response.message.pubkey = RelayPublicKey(r)
          /\ \E i \in 1..Len(rec.relays) : rec.relays[i] = RelayString(r)

\* C19: in every state, with getHeader auctions for the same slot or for different
\* slots running at the same time, the block hash in the key of each cache entry
\* is the record's blockHash and the block hash of the header in the record's
\* response, and the record's relays are not empty and include the relay whose
\* bid the response is.
C19_CacheEntriesSelfConsistent ==
    \A k \in DOMAIN bids : SelfConsistent(k, bids[k])

\* two auctions that ran at the same time have both stored their results, one
\* of them a bid that both relays delivered
C19_Witness ==
    /\ \A h \in HandlerIds : hreply[h].code = 200
    /\ \E r \in Relays : htask["A"][r].pc = "done" /\ htask["B"][r].pc = "done"
    /\ Cardinality(DOMAIN bids) = 2
    /\ \E k \in DOMAIN bids : Len(bids[k].relays) = 2

(***************************************************************************)
(* Properties of the locks and of the termination of requests.             *)
(***************************************************************************)
\* no request holds its own mutex and the cache guard together: a goroutine of
\* a request holds mu only while the handler is at wg.Wait, before it takes the
\* guard
NoNestedLocks ==
    /\ \A h \in HandlerIds : hmu[h] # 0 => (hpc[h] = "wait" /\ bidsLock # h)
    /\ pmu # 0 => (ppc = "wait" /\ bidsLock # "getPayload")

\* whoever holds a lock is at the step that releases it, and a request that has
\* replied holds none
LocksReleased ==
    /\ \A h \in HandlerIds :
          /\ hmu[h] # 0 => (htask[h][hmu[h]].pc = "crit" /\ ENABLED GetHeaderSelect(h, hmu[h]))
          /\ bidsLock = h => (hpc[h] = "store" /\ ENABLED GetHeaderStore(h))
          /\ hreply[h].code # 0 => (hmu[h] = 0 /\ bidsLock # h)
    /\ pmu # 0 => (ptask[pmu].pc = "crit" /\ ENABLED GetPayloadDeliver(pmu))
    /\ bidsLock = "getPayload" => (ppc = "lookup" /\ ENABLED GetPayloadWithheld)
    /\ preply.code # 0 => (pmu = 0 /\ bidsLock # "getPayload")
    /\ bidsLock = "sweeper" => (ENABLED SweeperSweep \/ ENABLED SweeperUnlock)

====
